---- MODULE Spec2Model ----
(***************************************************************************)
(* The research pipeline of automated-research-engine: the credibility     *)
(* scorer and filter, the bounded-concurrency batch extractor, the TTL     *)
(* result cache, and the orchestrator (ResearchAgent.research) driven by   *)
(* the streaming endpoint (stream_research).                               *)
(*                                                                         *)
(* Numbers: a score or a progress value is an integer number of            *)
(* hundredths (0.4 is 40, 1.0 is 100); inside calculate_score the running  *)
(* score is kept in units of 10^-9 so that every product by 0.7 and 0.9 is *)
(* exact.  Texts are strings; a URL is a record of its scheme, the labels  *)
(* of its host, the tokens of its path and its length in characters.       *)
(***************************************************************************)
EXTENDS Integers, Sequences, FiniteSets, TLC

\* ---------------------------------------------------------------- bounds
\* Largest configured Settings.max_sources_to_process the model draws.
MaxConfigured == 2
\* Largest number of hits the external web search API answers with.
MaxHits == 4
\* Largest URL list handed to a stand-alone extract_batch call.
MaxUrls == 3
\* Largest max_concurrent handed to a stand-alone extract_batch call.
MaxConcurrent == 2
\* Number of cache operations in a stand-alone cache history.
MaxCacheOps == 3
\* Largest number of clock advances, of half a TTL each, in a cache history.
MaxClock == 2
\* Number of concurrent stream_research calls on the shared cache.
MaxRuns == 2

\* The longest list handed to a stand-alone filter_sources call.
MaxListed == 3

\* The largest result cap of a stand-alone academic search.
MaxCap == 6

\* ------------------------------------------------------------- helpers
Min(a, b) == IF a < b THEN a ELSE b

Max(a, b) == IF a > b THEN a ELSE b

Range(s) == {s[i] : i \in DOMAIN s}

\* s[:n] of Python.
Take(s, n) == SubSeq(s, 1, Min(n, Len(s)))

\* All sequences over S of length at most n.
SeqsUpTo(S, n) == UNION {[1..k -> S] : k \in 0..n}

\* The elements of s at the positions in I, in the order of s.
RECURSIVE Pick(_, _, _)
Pick(s, I, i) ==
    IF i > Len(s) THEN << >>
    ELSE IF i \in I THEN <<s[i]>> \o Pick(s, I, i + 1)
    ELSE Pick(s, I, i + 1)

\* The sub-lists of s of length at most n.
SubListsUpTo(s, n) ==
    {Pick(s, I, 1) : I \in {J \in SUBSET DOMAIN s : Cardinality(J) <= n}}

\* The value None of Python, for an optional text or an absent cache entry.
None == "None"

\* None where the value, when present, is a record (a dict or a model).
NoneRecord == [none |-> TRUE]

\* bool(text): None and the empty text are falsy.
Truthy(t) == t # None /\ t # ""

\* ------------------------------------------------- credibility scorer
\* CREDIBILITY_SCORES in dictionary order.  A key that starts with "." is
\* a suffix entry (tld).  A key, like a host, is held as the sequence of
\* its pieces, every "." a piece of its own, so that the substring and
\* suffix tests of the code are tests on pieces.
CREDIBILITY_SCORES == <<
    [key |-> <<".", "edu">>, tld |-> TRUE, score |-> 90],
    [key |-> <<".", "ac", ".", "uk">>, tld |-> TRUE, score |-> 90],
    [key |-> <<".", "ac", ".", "jp">>, tld |-> TRUE, score |-> 90],
    [key |-> <<".", "gov">>, tld |-> TRUE, score |-> 85],
    [key |-> <<".", "mil">>, tld |-> TRUE, score |-> 85],
    [key |-> <<"arxiv", ".", "org">>, tld |-> FALSE, score |-> 92],
    [key |-> <<"semanticscholar", ".", "org">>, tld |-> FALSE, score |-> 88],
    [key |-> <<"scholar", ".", "google", ".", "com">>, tld |-> FALSE, score |-> 85],
    [key |-> <<"pubmed", ".", "ncbi", ".", "nlm", ".", "nih", ".", "gov">>, tld |-> FALSE, score |-> 92],
    [key |-> <<"ncbi", ".", "nlm", ".", "nih", ".", "gov">>, tld |-> FALSE, score |-> 90],
    [key |-> <<"doi", ".", "org">>, tld |-> FALSE, score |-> 88],
    [key |-> <<"researchgate", ".", "net">>, tld |-> FALSE, score |-> 80],
    [key |-> <<"academia", ".", "edu">>, tld |-> FALSE, score |-> 75],
    [key |-> <<"nature", ".", "com">>, tld |-> FALSE, score |-> 95],
    [key |-> <<"science", ".", "org">>, tld |-> FALSE, score |-> 95],
    [key |-> <<"sciencedirect", ".", "com">>, tld |-> FALSE, score |-> 90],
    [key |-> <<"springer", ".", "com">>, tld |-> FALSE, score |-> 88],
    [key |-> <<"wiley", ".", "com">>, tld |-> FALSE, score |-> 88],
    [key |-> <<"cell", ".", "com">>, tld |-> FALSE, score |-> 92],
    [key |-> <<"pnas", ".", "org">>, tld |-> FALSE, score |-> 90],
    [key |-> <<"plos", ".", "org">>, tld |-> FALSE, score |-> 85],
    [key |-> <<"ieee", ".", "org">>, tld |-> FALSE, score |-> 90],
    [key |-> <<"acm", ".", "org">>, tld |-> FALSE, score |-> 90],
    [key |-> <<"openai", ".", "com">>, tld |-> FALSE, score |-> 85],
    [key |-> <<"deepmind", ".", "com">>, tld |-> FALSE, score |-> 85],
    [key |-> <<"reuters", ".", "com">>, tld |-> FALSE, score |-> 85],
    [key |-> <<"apnews", ".", "com">>, tld |-> FALSE, score |-> 85],
    [key |-> <<"bbc", ".", "com">>, tld |-> FALSE, score |-> 80],
    [key |-> <<"bbc", ".", "co", ".", "uk">>, tld |-> FALSE, score |-> 80],
    [key |-> <<"nytimes", ".", "com">>, tld |-> FALSE, score |-> 80],
    [key |-> <<"washingtonpost", ".", "com">>, tld |-> FALSE, score |-> 80],
    [key |-> <<"theguardian", ".", "com">>, tld |-> FALSE, score |-> 75],
    [key |-> <<"npr", ".", "org">>, tld |-> FALSE, score |-> 80],
    [key |-> <<"economist", ".", "com">>, tld |-> FALSE, score |-> 80],
    [key |-> <<".", "org">>, tld |-> TRUE, score |-> 70],
    [key |-> <<"github", ".", "com">>, tld |-> FALSE, score |-> 70],
    [key |-> <<"stackoverflow", ".", "com">>, tld |-> FALSE, score |-> 70],
    [key |-> <<"huggingface", ".", "co">>, tld |-> FALSE, score |-> 75],
    [key |-> <<"wikipedia", ".", "org">>, tld |-> FALSE, score |-> 65],
    [key |-> <<"blogspot", ".", "com">>, tld |-> FALSE, score |-> 30],
    [key |-> <<"medium", ".", "com">>, tld |-> FALSE, score |-> 50],
    [key |-> <<"reddit", ".", "com">>, tld |-> FALSE, score |-> 40],
    [key |-> <<"quora", ".", "com">>, tld |-> FALSE, score |-> 40],
    [key |-> <<"twitter", ".", "com">>, tld |-> FALSE, score |-> 35],
    [key |-> <<"x", ".", "com">>, tld |-> FALSE, score |-> 35]
>>

\* RED_FLAGS in list order: for each pattern, the URL tokens it is found in.
RED_FLAGS == <<
    {"spam"},
    {"fake"},
    {"clickbait"},
    {"12345678"},
    {"ad", "ads"},
    {"promo"}
>>

\* One hundredth of a score, in the units calculate_score computes in.
Unit == 10000000

\* The inputs (table score, red flags found, https, over-long) whose exact
\* result ends in 5 thousandths and whose binary double lies above that
\* decimal, so that round(score, 2) rounds it up; every other such input
\* lies below it and is rounded down.
TiesRoundedUp == {
    <<35, 0, FALSE, TRUE>>, <<50, 1, FALSE, TRUE>>, <<65, 0, FALSE, TRUE>>,
    <<75, 0, FALSE, TRUE>>, <<85, 0, FALSE, TRUE>>, <<92, 0, TRUE, TRUE>>
}

\* k is found in h starting at piece i.
ContainsAt(h, k, i) ==
    /\ i >= 1
    /\ i + Len(k) - 1 <= Len(h)
    /\ \A j \in 1..Len(k) : h[i + j - 1] = k[j]

\* "known_domain in domain", on pieces.
Contains(h, k) == \E i \in 1..Len(h) : ContainsAt(h, k, i)

\* "domain.endswith(tld)", on pieces.
EndsWith(h, k) == ContainsAt(h, k, Len(h) - Len(k) + 1)

\* The least element of a non-empty set of naturals.
Least(S) == CHOOSE x \in S : \A y \in S : x <= y

\* A domain table in which a suffix entry the host ends with goes before
\* the non-suffix entries.
DomainScoreSuffixFirst(host) ==
    LET dom == {i \in DOMAIN CREDIBILITY_SCORES :
                  /\ ~CREDIBILITY_SCORES[i].tld
                  /\ Contains(host, CREDIBILITY_SCORES[i].key)}
        tld == {i \in DOMAIN CREDIBILITY_SCORES :
                  /\ CREDIBILITY_SCORES[i].tld
                  /\ EndsWith(host, CREDIBILITY_SCORES[i].key)}
    IN  IF tld # {} THEN Max(50, CREDIBILITY_SCORES[Least(tld)].score)
        ELSE IF dom # {} THEN CREDIBILITY_SCORES[Least(dom)].score
        ELSE 50

\* The score after the domain table: the first non-suffix entry found in the
\* host, else (for ... else) the first suffix entry the host ends with,
\* which only raises the base score.
DomainScore(host) ==
    LET dom == {i \in DOMAIN CREDIBILITY_SCORES :
                  /\ ~CREDIBILITY_SCORES[i].tld
                  /\ Contains(host, CREDIBILITY_SCORES[i].key)}
        tld == {i \in DOMAIN CREDIBILITY_SCORES :
                  /\ CREDIBILITY_SCORES[i].tld
                  /\ EndsWith(host, CREDIBILITY_SCORES[i].key)}
    IN  IF dom # {} THEN CREDIBILITY_SCORES[Least(dom)].score
        ELSE IF tld # {} THEN Max(50, CREDIBILITY_SCORES[Least(tld)].score)
        ELSE 50

\* The tokens re.search looks through: the whole lower-cased URL.
UrlTokens(url) == {url.scheme} \cup Range(url.host) \cup Range(url.path)

\* A count that stops at the first pattern found.
RedFlagFound(url) ==
    IF \E i \in DOMAIN RED_FLAGS : RED_FLAGS[i] \cap UrlTokens(url) # {}
    THEN 1 ELSE 0

\* The number of RED_FLAGS patterns found in the URL.
RedFlagCount(url) ==
    Cardinality({i \in DOMAIN RED_FLAGS : RED_FLAGS[i] \cap UrlTokens(url) # {}})

\* score *= 0.7, k times over.
RECURSIVE Penalised(_, _)
Penalised(s, k) == IF k = 0 THEN s ELSE Penalised((s \div 10) * 7, k - 1)

\* round(x, 2) of a score held in units of 10^-9, in hundredths.
Round2(s, roundTieUp) ==
    LET q == s \div Unit
        r == s % Unit
    IN  IF r * 2 > Unit \/ (r * 2 = Unit /\ roundTieUp) THEN q + 1 ELSE q

\* CredibilityFilterTool._calculate_score, in hundredths.
calculate_score(url) ==
    IF ~url.parses THEN 30
    ELSE
      LET base  == DomainScore(url.host)
          k     == RedFlagCount(url)
          https == url.scheme = "https"
          long  == url.length > 200
          s1 == Penalised(base * Unit, k)
          s2 == IF https THEN Min(100 * Unit, s1 + 3 * Unit) ELSE s1
          s3 == IF long THEN (s2 \div 10) * 9 ELSE s2
      IN  Round2(Min(100 * Unit, Max(0, s3)), <<base, k, https, long>> \in TiesRoundedUp)

\* The None of an omitted min_score, among scores in hundredths.
NoMinScore == -1

\* "min_score or self.min_credibility": None and 0 are falsy.
EffectiveMinScore(min_credibility, min_score) ==
    IF min_score = NoMinScore \/ min_score = 0
    THEN min_credibility
    ELSE min_score

\* A filter that also keeps a score of exactly 0.8.
SourceScoreFromEighty(source) ==
    IF source.credibility_score >= 80
    THEN source.credibility_score
    ELSE calculate_score(source.url)

\* The score filter_sources gives a source: a score above 0.8 is kept.
SourceScore(source) ==
    IF source.credibility_score > 80
    THEN source.credibility_score
    ELSE calculate_score(source.url)

\* The sources as filter_sources leaves them: it assigns the score to every
\* source object of its input, kept or not.
ScoredSources(sources) ==
    [i \in DOMAIN sources |->
        [sources[i] EXCEPT !.credibility_score = SourceScore(sources[i])]]

\* The sources of s whose score is at least min, in order.
RECURSIVE SelectScored(_, _)
SelectScored(s, min) ==
    IF s = << >> THEN << >>
    ELSE IF Head(s).credibility_score >= min
         THEN <<Head(s)>> \o SelectScored(Tail(s), min)
         ELSE SelectScored(Tail(s), min)

\* An insertion that puts x in front of the elements of its own score.
RECURSIVE InsertDescBeforeEqual(_, _)
InsertDescBeforeEqual(sorted, x) ==
    IF sorted = << >> THEN <<x>>
    ELSE IF Head(sorted).credibility_score > x.credibility_score
         THEN <<Head(sorted)>> \o InsertDescBeforeEqual(Tail(sorted), x)
         ELSE <<x>> \o sorted

\* x put into a list sorted by descending score, behind every element whose
\* score is at least its own (list.sort is stable, also with reverse=True).
RECURSIVE InsertDesc(_, _)
InsertDesc(sorted, x) ==
    IF sorted = << >> THEN <<x>>
    ELSE IF Head(sorted).credibility_score >= x.credibility_score
         THEN <<Head(sorted)>> \o InsertDesc(Tail(sorted), x)
         ELSE <<x>> \o sorted

RECURSIVE SortDesc(_)
SortDesc(s) ==
    IF s = << >> THEN << >>
    ELSE InsertDesc(SortDesc(SubSeq(s, 1, Len(s) - 1)), s[Len(s)])

\* CredibilityFilterTool.filter_sources: the returned list.
filter_sources(min_credibility, sources, min_score) ==
    SortDesc(SelectScored(ScoredSources(sources),
                          EffectiveMinScore(min_credibility, min_score)))

\* ------------------------------------------------------------ result cache
\* ResearchCache.__init__: ttl_hours; the clock of the model counts hours.
ttl_hours == 24

\* str.lower, on the characters the model's topics are written in.
LowerChar(c) ==
    CASE c = "A" -> "a"
      [] c = "I" -> "i"
      [] c = "M" -> "m"
      [] c = "L" -> "l"
      [] OTHER   -> c

Lower(t) == [i \in DOMAIN t |-> LowerChar(t[i])]

\* str.strip: leading and trailing blanks removed.
RECURSIVE LStrip(_)
LStrip(t) ==
    IF t # << >> /\ Head(t) \in {" ", "\n"} THEN LStrip(Tail(t)) ELSE t

RECURSIVE RStrip(_)
RStrip(t) ==
    IF t # << >> /\ t[Len(t)] \in {" ", "\n"}
    THEN RStrip(SubSeq(t, 1, Len(t) - 1))
    ELSE t

Strip(t) == RStrip(LStrip(t))

\* str(include_academic)
BoolText(flag) == IF flag THEN "True" ELSE "False"

\* The key with the depth left out of the hashed text.
make_key_without_depth(topic, depth, include_academic) ==
    Strip(Lower(topic)) \o <<":", BoolText(include_academic)>>

\* ResearchCache._make_key: the text "<topic.lower().strip()>:<depth>:<flag>",
\* held as the characters of the topic followed by the other parts.  The
\* SHA-256 prefix taken of it is taken to be collision-free, so the key is
\* held as the hashed text.
make_key(topic, depth, include_academic) ==
    Strip(Lower(topic)) \o <<":", depth, ":", BoolText(include_academic)>>

\* A store whose entries never expire.
ttl_get_never_expires(store, key, now) ==
    IF key \in DOMAIN store THEN store[key].value ELSE NoneRecord

\* TTLCache.get: the stored value while the clock is before the entry's
\* expiry, None from then on and for a key never stored.
ttl_get(store, key, now) ==
    IF key \in DOMAIN store /\ now < store[key].expires
    THEN store[key].value
    ELSE NoneRecord

\* {**result, "cached_at": ..., "cache_key": key}
WithMeta(result, at, key) ==
    [f \in DOMAIN result \cup {"cached_at", "cache_key"} |->
        IF f = "cached_at" THEN at
        ELSE IF f = "cache_key" THEN key
        ELSE result[f]]

\* A hit that hands on the entry as stored.
KeepMeta(entry) == entry

\* {k: v for k, v in cached_result.items() if k not in ["cached_at", "cache_key"]}
StripMeta(entry) ==
    [f \in DOMAIN entry \ {"cached_at", "cache_key"} |-> entry[f]]

\* A store that keeps the entry a key already has.
ttl_set_keep_first(store, key, value, now) ==
    LET live == {k \in DOMAIN store : now < store[k].expires}
    IN  [k \in live \cup {key} |->
            IF k \in live
            THEN store[k]
            ELSE [value |-> value, expires |-> now + ttl_hours]]

\* TTLCache.__setitem__: expired entries are dropped, then the key is bound
\* to the value with a fresh expiry.  The model holds fewer keys than
\* maxsize (100), so no live entry is evicted for room.
ttl_set(store, key, value, now) ==
    LET live == {k \in DOMAIN store : now < store[k].expires}
    IN  [k \in live \cup {key} |->
            IF k = key
            THEN [value |-> value, expires |-> now + ttl_hours]
            ELSE store[k]]

\* TTLCache.__contains__, __delitem__ as ResearchCache.invalidate uses them:
\* the store after the call; an expired entry counts as absent.
ttl_contains(store, key, now) ==
    key \in DOMAIN store /\ now < store[key].expires

ttl_delete(store, key) == [k \in DOMAIN store \ {key} |-> store[k]]

\* TTLCache.__len__: the number of entries not yet expired.
ttl_len(store, now) ==
    Cardinality({k \in DOMAIN store : now < store[k].expires})

\* ResearchCache.set: the store after the call.
cache_set(store, topic, depth, result, include_academic, now) ==
    LET key == make_key(topic, depth, include_academic)
    IN  ttl_set(store, key, WithMeta(result, now, key), now)

\* ResearchCache.get: the returned value.
cache_get(store, topic, depth, include_academic, now) ==
    ttl_get(store, make_key(topic, depth, include_academic), now)

\* ------------------------------------------------------------- the world
\* URLs the external search services answer with.
url_nature ==
    [scheme |-> "https", host |-> <<"www", ".", "nature", ".", "com">>,
     path |-> <<"articles">>, length |-> 40, parses |-> TRUE]

url_blog ==
    [scheme |-> "http", host |-> <<"news", ".", "blogspot", ".", "com">>,
     path |-> <<"post">>, length |-> 40, parses |-> TRUE]

url_tweet ==
    [scheme |-> "http", host |-> <<"twitter", ".", "com">>,
     path |-> <<"status">>, length |-> 40, parses |-> TRUE]

url_spam ==
    [scheme |-> "http", host |-> <<"blogspot", ".", "com">>,
     path |-> <<"spam", "fake">>, length |-> 40, parses |-> TRUE]

url_arxiv_listing ==
    [scheme |-> "https", host |-> <<"arxiv", ".", "org">>,
     path |-> <<"list">>, length |-> 40, parses |-> TRUE]

url_arxiv_abs ==
    [scheme |-> "https", host |-> <<"arxiv", ".", "org">>,
     path |-> <<"abs">>, length |-> 40, parses |-> TRUE]

url_s2_listing ==
    [scheme |-> "https", host |-> <<"www", ".", "semanticscholar", ".", "org">>,
     path |-> <<"search">>, length |-> 40, parses |-> TRUE]

url_arxiv_paper ==
    [scheme |-> "http", host |-> <<"arxiv", ".", "org">>,
     path |-> <<"abs">>, length |-> 40, parses |-> TRUE]

url_s2_paper ==
    [scheme |-> "https", host |-> <<"www", ".", "semanticscholar", ".", "org">>,
     path |-> <<"paper">>, length |-> 40, parses |-> TRUE]

\* The index of the external web search API, in its ranking order, each
\* entry as WebSearchTool._arun keeps it, one of them without a snippet.
\* The API answers a query with a sub-list of its ranking.
WebRanking == <<
    [url |-> url_spam, title |-> "Spam page", snippet |-> "snippet"],
    [url |-> url_blog, title |-> "Blog post", snippet |-> "snippet"],
    [url |-> url_tweet, title |-> "Tweet", snippet |-> "snippet"],
    [url |-> url_s2_listing, title |-> "S2 listing", snippet |-> "snippet"],
    [url |-> url_nature, title |-> "Nature article", snippet |-> "snippet"],
    [url |-> url_arxiv_listing, title |-> "arXiv listing", snippet |-> ""],
    [url |-> url_arxiv_abs, title |-> "arXiv abs", snippet |-> "snippet"]
>>

\* What the fetch and parse inside ContentExtractorTool._arun end in.
FetchOutcomes == {"ok", "empty", "timeout", "status", "failure"}

\* An extractor without its last except clause: the failure leaves the call
\* as an exception, and no text is returned.
arun_without_catch_all(outcome) ==
    CASE outcome = "ok"      -> "page text"
      [] outcome = "empty"   -> ""
      [] outcome = "timeout" -> "[Error: Request timed out for url]"
      [] outcome = "status"  -> "[Error: HTTP 404 for url]"
      [] OTHER               -> None

\* ContentExtractorTool._arun: the text returned for each outcome; every
\* exception is caught and turned into a sentinel.
arun(outcome) ==
    CASE outcome = "ok"      -> "page text"
      [] outcome = "empty"   -> ""
      [] outcome = "timeout" -> "[Error: Request timed out for url]"
      [] outcome = "status"  -> "[Error: HTTP 404 for url]"
      [] OTHER               -> "[Error extracting content: reason]"

\* The texts a run's extract_batch answers with: the timeout sentinel
\* stands for the three, which the pipeline tells apart by their prefix
\* alone.
RunTexts == {arun(outcome) : outcome \in {"ok", "empty", "timeout"}}

\* content.startswith("[Error")
StartsWithError(text) == Len(text) >= 6 /\ SubSeq(text, 1, 6) = "[Error"

\* The synthesis answers a run draws from, as the pieces of their text:
\* with and without a heading.
RunSynthesisTexts == {
    <<"#", "#", " ", "Executive Summary", "\n",
      "#", "#", " ", "References">>,
    <<"#", "#", " ", "Executive Summary">>
}

\* "thorough" stands for a depth the orchestrator does not recognise.
Depths == {"quick", "standard", "deep", "thorough"}

\* The requests a run is started with: every depth and flag for one topic,
\* and three requests for a second topic, written with a capital and a
\* leading blank.
Requests ==
    [topic : {<<"A", "I">>}, depth : Depths, include_academic : BOOLEAN]
    \cup {[topic |-> <<" ", "M", "l">>, depth |-> "quick",
            include_academic |-> FALSE],
           [topic |-> <<" ", "M", "l">>, depth |-> "deep",
            include_academic |-> FALSE],
           [topic |-> <<" ", "M", "l">>, depth |-> "quick",
            include_academic |-> TRUE]}

\* ----------------------------------------------------------------- state
VARIABLES
    settings,            \* Settings: max_sources_to_process
    store,               \* ResearchCache.cache: key -> [value, expires]
    hits,                \* ResearchCache.hits
    misses,              \* ResearchCache.misses
    clock,               \* the cache timer, in hours
    request,             \* the arguments of stream_research, or None
    pc,                  \* where the run's generators are suspended
    events,              \* the items handed to the consumer, in order
    sources,             \* research(): sources
    filtered_sources,    \* research(): filtered_sources
    summarized_sources,  \* research(): summarized_sources
    briefing,            \* research(): briefing
    cached_result,       \* stream_research(): cached_result
    final_result,        \* stream_research(): final_result
    probe,               \* counting probe on the calls a run makes
    batch,               \* a stand-alone extract_batch call
    cache_probe,         \* recording probe on the calls made to the cache
    runs,                \* concurrent stream_research calls on one cache
    tool_call            \* a stand-alone call of one tool or chain

runVars == <<request, pc, events, sources, filtered_sources,
             summarized_sources, briefing, cached_result, final_result,
             probe>>

cacheVars == <<store, hits, misses, clock>>

vars == <<settings, store, hits, misses, clock, request, pc, events, sources,
          filtered_sources, summarized_sources, briefing, cached_result,
          final_result, probe, batch, cache_probe, runs, tool_call>>

\* ---------------------------------------------------------------- values
\* Source(url=..., title=..., snippet=...) with the defaults of the schema.
Source(hit, credibility) ==
    [url |-> hit.url, title |-> hit.title, snippet |-> hit.snippet,
     content |-> None, credibility_score |-> credibility, summary |-> None]

\* ResearchProgress; the message text is not modelled.
Progress(status, progress, found, processed) ==
    [event |-> "progress", status |-> status, progress |-> progress,
     sources_found |-> found, sources_processed |-> processed]

\* ResearchResult.model_dump(); total_time_seconds, a wall-clock reading, is
\* not modelled.
ResearchResult(topic, text, srcs) ==
    [topic |-> topic, briefing |-> text, sources |-> srcs,
     model_used |-> "llama3:8b"]

ResultEvent(data) == [event |-> "result", data |-> data]

\* The item stream_research yields from its except clause.
ErrorEvent == [event |-> "error", message |-> "exception"]

\* A briefing: the pieces of the text, and the reference lines that follow
\* the text when synthesize() appended a references section.
Briefing(lines, refs) == [text |-> lines, appended |-> refs]

NoSourcesBriefing == Briefing(<<"No sources available to synthesize.">>, << >>)

NoCalls ==
    [web |-> 0, web_hits |-> 0, academic |-> 0, filter |-> << >>,
     fetch |-> << >>, llm_summarize |-> 0, llm_synthesize |-> 0,
     cache_set |-> 0, raised |-> "none"]

\* research(): max_sources for a depth.
DepthMaxSources(depth, configured) ==
    CASE depth = "quick"    -> 3
      [] depth = "standard" -> configured
      [] depth = "deep"     -> configured + 3
      [] OTHER              -> configured

\* ResearchAgent.__init__: the result caps of the two search tools.
WebMaxResults(configured) == configured * 2

AcademicMaxResults(configured) == configured

\* stream_research: min_credibility handed to the agent.
min_credibility == 40

\* research(): the threshold of the second filter pass.
lowered_threshold_unchanged == min_credibility

lowered_threshold == 20

\* ------------------------------------------------------ academic provider
\* The "" of the url field of an error entry.
empty_url ==
    [scheme |-> "", host |-> << >>, path |-> << >>, length |-> 0,
     parses |-> TRUE]

arxiv_paper ==
    [url |-> url_arxiv_paper, title |-> "arXiv paper", snippet |-> "abstract",
     source |-> "arxiv"]

s2_paper ==
    [url |-> url_s2_paper, title |-> "S2 paper", snippet |-> "abstract",
     source |-> "semantic_scholar"]

\* The entry the except clause of _search_arxiv returns.
arxiv_error ==
    [url |-> empty_url, title |-> "arXiv Search Error",
     snippet |-> "Error searching arXiv", source |-> "arxiv"]

\* The entry the except clauses of _search_semantic_scholar return.
s2_error ==
    [url |-> empty_url, title |-> "Semantic Scholar Error",
     snippet |-> "Error searching Semantic Scholar",
     source |-> "semantic_scholar"]

\* What _search_arxiv can return under a result cap: up to cap // 2 papers,
\* or the error entry.
ArxivOutcomes(cap) == SeqsUpTo({arxiv_paper}, cap \div 2) \cup {<<arxiv_error>>}

\* What _search_semantic_scholar can return under a result cap.
S2Outcomes(cap) == SeqsUpTo({s2_paper}, cap \div 2) \cup {<<s2_error>>}

\* AcademicSearchTool._arun: both lists joined and cut to the cap.
academic_arun(arxiv_results, semantic_results, cap) ==
    Take(arxiv_results \o semantic_results, cap)

\* A search() that makes a source of every raw result.
RECURSIVE AcademicSourcesOfAll(_)
AcademicSourcesOfAll(raw) ==
    IF raw = << >> THEN << >>
    ELSE <<Source(Head(raw), IF Head(raw).source = "arxiv" THEN 85 ELSE 80)>>
         \o AcademicSourcesOfAll(Tail(raw))

\* The sources search() makes of the raw results, in order.
RECURSIVE AcademicSources(_)
AcademicSources(raw) ==
    IF raw = << >> THEN << >>
    ELSE IF Head(raw).url.length > 0
         THEN <<Source(Head(raw),
                       IF Head(raw).source = "arxiv" THEN 85 ELSE 80)>>
              \o AcademicSources(Tail(raw))
         ELSE AcademicSources(Tail(raw))

\* AcademicSearchTool.search
academic_search(arxiv_results, semantic_results, cap) ==
    AcademicSources(academic_arun(arxiv_results, semantic_results, cap))

\* ------------------------------------------------- summarizer, synthesizer
UnableToSummarize == "[Unable to summarize: content extraction failed]"

\* The model backend's answer to the summarization prompt of a source.
SummaryText(title) ==
    CASE title = "Nature article" -> "summary of Nature article"
      [] title = "Blog post"      -> "summary of Blog post"
      [] title = "Tweet"          -> "summary of Tweet"
      [] title = "arXiv listing"  -> "summary of arXiv listing"
      [] title = "arXiv abs"      -> "summary of arXiv abs"
      [] title = "S2 listing"     -> "summary of S2 listing"
      [] title = "arXiv paper"    -> "summary of arXiv paper"
      [] title = "S2 paper"       -> "summary of S2 paper"
      [] OTHER                    -> "summary"

\* A summarizer that looks for empty content only.
NeedsModelUnlessEmpty(content) == Truthy(content)

\* summarize(): whether the model backend is invoked for this content.
NeedsModel(content) == Truthy(content) /\ ~StartsWithError(content)

\* SummarizerChain.summarize, the model backend answering.
summarize(title, content) ==
    IF NeedsModel(content) THEN SummaryText(title) ELSE UnableToSummarize

\* summarize_batch, every call completing: gather keeps the input order.
summarize_batch(srcs) ==
    [i \in DOMAIN srcs |->
        [f \in DOMAIN srcs[i] \cup {"summary"} |->
            IF f = "summary"
            THEN summarize(srcs[i].title, srcs[i].content)
            ELSE srcs[i][f]]]

\* The number of model-backend calls summarize_batch issues.
ModelCalls(srcs) ==
    Cardinality({i \in DOMAIN srcs : NeedsModel(srcs[i].content)})

\* '"## References" not in briefing and "## Sources" not in briefing': the
\* test of Python's "in", which finds the text anywhere.
LacksReferences(text) ==
    /\ ~Contains(text, <<"#", "#", " ", "References">>)
    /\ ~Contains(text, <<"#", "#", " ", "Sources">>)

\* The reference lines synthesize() appends: [i] [title](url).
ReferenceLines(srcs) ==
    [i \in DOMAIN srcs |-> [i |-> i, title |-> srcs[i].title, url |-> srcs[i].url]]

\* SynthesizerChain.synthesize, the model backend answering with result:
\* result.strip(), and "\n\n## References\n" with the reference lines
\* behind it when the test finds no section.
synthesize(srcs, result) ==
    IF srcs = << >> THEN NoSourcesBriefing
    ELSE IF LacksReferences(Strip(result))
         THEN Briefing(Strip(result)
                          \o <<"\n", "\n", "#", "#", " ", "References", "\n">>,
                       ReferenceLines(srcs))
         ELSE Briefing(Strip(result), << >>)

\* ------------------------------------------------------------ orchestrator
\* research(): filtered_sources[:max_sources].
LimitToMaxOffByOne(srcs, max_sources) == Take(srcs, max_sources + 1)

LimitToMax(srcs, max_sources) == Take(srcs, max_sources)

\* research(): the two filter passes and the cut to max_sources.  passes
\* lists the thresholds filter_sources was called with; scored is the source
\* list as the passes leave it.
FilterStage(srcs, max_sources) ==
    LET first  == filter_sources(min_credibility, srcs, min_credibility)
        scored == ScoredSources(srcs)
        second == filter_sources(min_credibility, scored, lowered_threshold)
    IN  IF first = << >>
        THEN [kept   |-> LimitToMax(second, max_sources),
              passes |-> <<min_credibility, lowered_threshold>>,
              scored |-> ScoredSources(scored)]
        ELSE [kept   |-> LimitToMax(first, max_sources),
              passes |-> <<min_credibility>>,
              scored |-> scored]

\* 'any(domain in s.url for domain in ["arxiv.org", "semanticscholar.org"])'
IsAcademicUrl(url) ==
    \E d \in {<<"arxiv", ".", "org">>, <<"semanticscholar", ".", "org">>} :
        Contains(url.host, d) \/ Contains(url.path, d)

\* The URLs of all the sources.
AllUrls(srcs) == [i \in DOMAIN srcs |-> srcs[i].url]

\* research(): web_urls.
RECURSIVE WebUrls(_)
WebUrls(srcs) ==
    IF srcs = << >> THEN << >>
    ELSE IF IsAcademicUrl(Head(srcs).url)
         THEN WebUrls(Tail(srcs))
         ELSE <<Head(srcs).url>> \o WebUrls(Tail(srcs))

\* research(): the sources after "Update sources with content".
WithContent(srcs, content_map) ==
    [i \in DOMAIN srcs |->
        IF srcs[i].url \in DOMAIN content_map
        THEN [srcs[i] EXCEPT !.content = content_map[srcs[i].url]]
        ELSE IF ~Truthy(srcs[i].content)
             THEN [srcs[i] EXCEPT !.content = srcs[i].snippet]
             ELSE srcs[i]]

\* research(): sources_for_summary.
SourcesForSummary(srcs) ==
    [i \in DOMAIN srcs |->
        [url |-> srcs[i].url, title |-> srcs[i].title,
         content |-> IF Truthy(srcs[i].content)
                     THEN srcs[i].content ELSE srcs[i].snippet,
         credibility_score |-> srcs[i].credibility_score]]

\* research(): the sources after "Update source objects with summaries".
WithSummaries(srcs, summarized) ==
    [i \in DOMAIN srcs |->
        IF i <= Len(summarized)
        THEN [srcs[i] EXCEPT !.summary =
                 IF "summary" \in DOMAIN summarized[i]
                 THEN summarized[i].summary ELSE ""]
        ELSE srcs[i]]

\* research(): the progress value of each progress event, in hundredths.
Checkpoints ==
    [web |-> 10, academic |-> 15, merged |-> 20, extracting |-> 30,
     summarizing |-> 50, synthesizing |-> 80, completed |-> 100]

\* research(): where the run goes after the web search; "if not sources"
\* ends it behind the error event.
AfterWebSearchNoReturn(srcs, include_academic) ==
    IF include_academic THEN "academic" ELSE "filter"

AfterWebSearch(srcs, include_academic) ==
    IF srcs = << >> THEN "error_end"
    ELSE IF include_academic THEN "academic"
    ELSE "filter"

\* stream_research: the except clause swallowing the exception.
OnExceptionSilent(evs) == evs

\* What stream_research hands on when the pipeline raises.
OnException(evs) == Append(evs, ErrorEvent)

\* What research() emits when the web search found nothing.
ZeroSourcesEvent == Progress("error", 0, 0, 0)

MaxSources == DepthMaxSources(request.depth, settings.max_sources_to_process)

\* A request arrives: start_research wraps stream_research(...) for the
\* consumer.
start_research(research_request) ==
    /\ pc = "idle"
    /\ request' = research_request
    /\ pc' = "start"
    /\ UNCHANGED <<settings, cacheVars, events, sources, filtered_sources,
                   summarized_sources, briefing, cached_result, final_result,
                   probe, batch,
                   cache_probe, runs, tool_call>>

\* First pull: the cache is asked; on a hit the completed event is handed
\* on, on a miss the agent is built and runs to its first yield.
stream_research_begin ==
    /\ pc = "start"
    /\ LET found == cache_get(store, request.topic, request.depth,
                              request.include_academic, clock)
       IN  /\ cached_result' = found
           /\ IF found # NoneRecord
              THEN /\ hits' = hits + 1
                   /\ misses' = misses
                   /\ events' = Append(events,
                         Progress("completed", 100, Len(found.sources),
                                  Len(found.sources)))
                   /\ pc' = "hit_result"
              ELSE /\ misses' = misses + 1
                   /\ hits' = hits
                   /\ events' = Append(events, Progress("searching", Checkpoints.web, 0, 0))
                   /\ pc' = "web"
    /\ UNCHANGED <<settings, store, clock, request, sources, filtered_sources,
                   summarized_sources, briefing, final_result, probe, batch,
                   cache_probe, runs, tool_call>>

\* Cache hit, second pull: the stored result without its metadata.
stream_research_cached ==
    /\ pc = "hit_result"
    /\ events' = Append(events, ResultEvent(StripMeta(cached_result)))
    /\ pc' = "hit_end"
    /\ UNCHANGED <<settings, cacheVars, request, sources, filtered_sources,
                   summarized_sources, briefing, cached_result, final_result,
                   probe, batch,
                   cache_probe, runs, tool_call>>

\* research(): the web search, then the error event, the academic
\* announcement or the merged count.
research_web_search ==
    /\ pc = "web"
    /\ \E found \in SubListsUpTo(WebRanking,
                       Min(MaxHits,
                           Min(WebMaxResults(settings.max_sources_to_process), 10))) :
         LET srcs == [i \in DOMAIN found |-> Source(found[i], 50)]
         IN  /\ sources' = srcs
             /\ probe' = [probe EXCEPT !.web = @ + 1, !.web_hits = Len(srcs)]
             /\ events' = Append(events,
                   IF srcs = << >> THEN ZeroSourcesEvent
                   ELSE IF request.include_academic
                   THEN Progress("searching", Checkpoints.academic, Len(srcs), 0)
                   ELSE Progress("searching", Checkpoints.merged, Len(srcs), 0))
             /\ pc' = AfterWebSearch(srcs, request.include_academic)
    /\ UNCHANGED <<settings, cacheVars, request, filtered_sources,
                   summarized_sources, briefing, cached_result, final_result,
                   batch,
                   cache_probe, runs, tool_call>>

\* research(): the academic search and the merged count.
research_academic_search ==
    /\ pc = "academic"
    /\ LET cap == AcademicMaxResults(settings.max_sources_to_process)
       IN  \E ax \in ArxivOutcomes(cap), sx \in S2Outcomes(cap) :
             /\ sources' = sources \o academic_search(ax, sx, cap)
             /\ events' = Append(events,
                   Progress("searching", Checkpoints.merged, Len(sources'), 0))
    /\ probe' = [probe EXCEPT !.academic = @ + 1]
    /\ pc' = "filter"
    /\ UNCHANGED <<settings, cacheVars, request, filtered_sources,
                   summarized_sources, briefing, cached_result, final_result,
                   batch,
                   cache_probe, runs, tool_call>>

\* research(): credibility filter, lowered retry, cut, extracting event.
research_filter ==
    /\ pc = "filter"
    /\ LET stage == FilterStage(sources, MaxSources)
       IN  /\ filtered_sources' = stage.kept
           /\ sources' = stage.scored
           /\ probe' = [probe EXCEPT !.filter = stage.passes]
           /\ events' = Append(events,
                 Progress("extracting", Checkpoints.extracting, Len(sources), 0))
    /\ pc' = "extract"
    /\ UNCHANGED <<settings, cacheVars, request, summarized_sources, briefing,
                   cached_result, final_result, batch,
                   cache_probe, runs, tool_call>>

\* research(): batch extraction of the non-academic URLs, content update,
\* summarizing event.  extract_batch answers with a text for every URL.
research_extract ==
    /\ pc = "extract"
    /\ LET web_urls == WebUrls(filtered_sources)
       IN  \E content_map \in [Range(web_urls) -> RunTexts] :
             /\ filtered_sources' = WithContent(filtered_sources, content_map)
             /\ probe' = [probe EXCEPT !.fetch = web_urls]
    /\ events' = Append(events,
          Progress("summarizing", Checkpoints.summarizing, Len(sources), Len(filtered_sources)))
    /\ pc' = "summarize"
    /\ UNCHANGED <<settings, cacheVars, request, sources, summarized_sources,
                   briefing, cached_result, final_result, batch,
                   cache_probe, runs, tool_call>>

\* research(): summarize_batch.  gather() is called without
\* return_exceptions, so a model-backend call that raises ends research()
\* with that exception, which stream_research turns into an error item.
research_summarize ==
    /\ pc = "summarize"
    /\ LET for_summary == SourcesForSummary(filtered_sources)
           results     == summarize_batch(for_summary)
           summarized  == IF results = << >> THEN for_summary ELSE results
       IN  \E backend_ok \in {TRUE} \cup {FALSE : i \in 1..ModelCalls(for_summary)} :
             /\ probe' = [probe EXCEPT
                   !.llm_summarize = ModelCalls(for_summary),
                   !.raised = IF backend_ok THEN @ ELSE "summarize"]
             /\ IF backend_ok
                THEN /\ summarized_sources' = summarized
                     /\ filtered_sources' =
                           WithSummaries(filtered_sources, summarized)
                     /\ events' = Append(events,
                           Progress("synthesizing", Checkpoints.synthesizing, Len(sources),
                                    Len(filtered_sources)))
                     /\ pc' = "synthesize"
                ELSE /\ events' = OnException(events)
                     /\ pc' = "raised_end"
                     /\ UNCHANGED <<summarized_sources, filtered_sources>>
    /\ UNCHANGED <<settings, cacheVars, request, sources, briefing,
                   cached_result, final_result, batch,
                   cache_probe, runs, tool_call>>

\* research(): synthesize, completed event.  The model backend is invoked
\* only for a non-empty source list, and its call may raise.
research_synthesize ==
    /\ pc = "synthesize"
    /\ \E answer \in IF summarized_sources = << >>
                     THEN {<< >>}
                     ELSE RunSynthesisTexts \cup {<<"raise">>} :
         IF answer = <<"raise">>
         THEN /\ probe' = [probe EXCEPT !.llm_synthesize = @ + 1,
                                        !.raised = "synthesize"]
              /\ events' = OnException(events)
              /\ pc' = "raised_end"
              /\ UNCHANGED briefing
         ELSE /\ probe' = [probe EXCEPT !.llm_synthesize =
                     IF summarized_sources = << >> THEN @ ELSE @ + 1]
              /\ briefing' = synthesize(summarized_sources, answer)
              /\ events' = Append(events,
                    Progress("completed", Checkpoints.completed, Len(sources),
                             Len(filtered_sources)))
              /\ pc' = "result"
    /\ UNCHANGED <<settings, cacheVars, request, sources, filtered_sources,
                   summarized_sources, cached_result, final_result, batch,
                   cache_probe, runs, tool_call>>

\* A stream_research that writes the result to the cache as it hands it on.
research_result_writing_first ==
    /\ pc = "result"
    /\ final_result' = ResearchResult(request.topic, briefing, filtered_sources)
    /\ events' = Append(events, ResultEvent(final_result'))
    /\ store' = cache_set(store, request.topic, request.depth,
                          final_result', request.include_academic, clock)
    /\ pc' = "finish"
    /\ UNCHANGED <<settings, hits, misses, clock, request, sources,
                   filtered_sources, summarized_sources, briefing,
                   cached_result, probe, batch, cache_probe, runs, tool_call>>

\* research() yields the ResearchResult; stream_research keeps its dump as
\* final_result and hands it on.
research_result ==
    /\ pc = "result"
    /\ final_result' = ResearchResult(request.topic, briefing, filtered_sources)
    /\ events' = Append(events, ResultEvent(final_result'))
    /\ pc' = "finish"
    /\ UNCHANGED <<settings, cacheVars, request, sources, filtered_sources,
                   summarized_sources, briefing, cached_result, probe, batch,
                   cache_probe, runs, tool_call>>

\* A run that writes whatever it ended with.
ShouldCacheAlways(result) == TRUE

\* A run that writes only a result that has sources.
ShouldCacheWithSources(result) ==
    result # NoneRecord /\ result.sources # << >>

\* stream_research: "if final_result:", the test in front of cache.set.
ShouldCache(result) == result # NoneRecord

\* The pull after the last item of research(): the loop ends and a
\* final_result is written to the cache.
stream_research_finish ==
    /\ pc \in {"finish", "error_end"}
    /\ IF ShouldCache(final_result)
       THEN /\ store' = cache_set(store, request.topic, request.depth,
                                  final_result, request.include_academic, clock)
            /\ probe' = [probe EXCEPT !.cache_set = @ + 1]
       ELSE UNCHANGED <<store, probe>>
    /\ pc' = "done"
    /\ UNCHANGED <<settings, hits, misses, clock, request, events, sources,
                   filtered_sources, summarized_sources, briefing,
                   cached_result, final_result, batch,
                   cache_probe, runs, tool_call>>

\* The pull after the cached result or after the error item: return.
stream_research_return ==
    /\ pc \in {"hit_end", "raised_end"}
    /\ pc' = "done"
    /\ UNCHANGED <<settings, cacheVars, request, events, sources,
                   filtered_sources, summarized_sources, briefing,
                   cached_result, final_result, probe, batch,
                   cache_probe, runs, tool_call>>

\* ------------------------------------------------------- the specification
\* The result of an earlier run that every source was filtered out of.
EarlierResult == ResearchResult(<<"m", "l">>, NoSourcesBriefing, << >>)

\* The process-wide cache as a run finds it: it holds the result an earlier
\* request for ("ml", quick, no academic) missed and then wrote, still live.
EarlierStore ==
    cache_set(<< >>, <<"m", "l">>, "quick", EarlierResult, FALSE, 0)

Init ==
    /\ settings \in [max_sources_to_process : 1..MaxConfigured]
    /\ store = EarlierStore
    /\ hits = 0
    /\ misses = 1
    /\ clock = 0
    /\ request = NoneRecord
    /\ pc = "idle"
    /\ events = << >>
    /\ sources = << >>
    /\ filtered_sources = << >>
    /\ summarized_sources = << >>
    /\ briefing = NoneRecord
    /\ cached_result = NoneRecord
    /\ final_result = NoneRecord
    /\ probe = NoCalls
    /\ batch = NoneRecord
    /\ cache_probe = NoneRecord
    /\ runs = << >>
    /\ tool_call = NoneRecord

Next ==
    \/ \E research_request \in Requests : start_research(research_request)
    \/ stream_research_begin
    \/ stream_research_cached
    \/ research_web_search
    \/ research_academic_search
    \/ research_filter
    \/ research_extract
    \/ research_summarize
    \/ research_synthesize
    \/ research_result
    \/ stream_research_finish
    \/ stream_research_return

Spec == Init /\ [][Next]_vars

\* ------------------------------------------- extract_batch, task by task
\* The URLs and fetch outcomes of a stand-alone extract_batch call.
BatchUrls == {url_nature, url_blog}

BatchOutcomes == FetchOutcomes

BatchTexts == {arun(outcome) : outcome \in BatchOutcomes}

\* asyncio.Semaphore(max_concurrent) and one task per URL, none started.
NewBatch(urls, max_concurrent) ==
    [urls |-> urls, max_concurrent |-> max_concurrent,
     permits |-> max_concurrent,
     task |-> [i \in DOMAIN urls |-> "waiting"],
     fetched |-> [i \in DOMAIN urls |-> None],
     results |-> [i \in DOMAIN urls |-> None],
     returned |-> FALSE, content_map |-> << >>]

\* A semaphore that keeps its last permit back.
SemaphoreOpenAboveOne(b) == b.permits > 1

\* A semaphore that hands out a permit it does not have.
SemaphoreOpenAlways(b) == TRUE

\* asyncio.Semaphore.acquire proceeds only while its value is positive.
SemaphoreOpen(b) == b.permits > 0

\* The loop over gather's results: a later tuple for a URL replaces an
\* earlier one.
ContentMap(b) ==
    [u \in Range(b.urls) |->
        b.results[CHOOSE i \in DOMAIN b.urls :
                    /\ b.urls[i] = u
                    /\ \A j \in DOMAIN b.urls : b.urls[j] = u => j <= i]]

\* The fetches outstanding: tasks inside "async with semaphore".
Outstanding(b) == {i \in DOMAIN b.task : b.task[i] = "fetching"}

\* extract_batch(urls, max_concurrent) is called.
extract_batch_call ==
    /\ batch = NoneRecord
    /\ \E urls \in SeqsUpTo(BatchUrls, MaxUrls), max_concurrent \in 0..MaxConcurrent :
          batch' = NewBatch(urls, max_concurrent)
    /\ UNCHANGED <<settings, cacheVars, runVars, cache_probe, runs, tool_call>>

\* extract_with_semaphore: task i enters "async with semaphore".
extract_acquire(i) ==
    /\ batch # NoneRecord
    /\ i \in DOMAIN batch.task
    /\ batch.task[i] = "waiting"
    /\ SemaphoreOpen(batch)
    /\ batch' = [batch EXCEPT !.task[i] = "fetching",
                              !.permits = batch.permits - 1]
    /\ UNCHANGED <<settings, cacheVars, runVars, cache_probe, runs, tool_call>>

\* extract_with_semaphore: _arun answers task i with a text, the task
\* returns its tuple and leaves "async with", releasing the permit.
extract_release(i) ==
    /\ batch # NoneRecord
    /\ i \in DOMAIN batch.task
    /\ batch.task[i] = "fetching"
    /\ \E outcome \in BatchOutcomes :
          batch' = [batch EXCEPT !.task[i] = "done",
                                 !.fetched[i] = outcome,
                                 !.results[i] = arun(outcome),
                                 !.permits = batch.permits + 1]
    /\ UNCHANGED <<settings, cacheVars, runVars, cache_probe, runs, tool_call>>

\* A gather that returns with the first outcome it has.
extract_batch_return_first_settled ==
    /\ batch # NoneRecord
    /\ ~batch.returned
    /\ \E i \in DOMAIN batch.task : batch.task[i] = "done"
    /\ batch' = [batch EXCEPT !.returned = TRUE,
                              !.content_map = ContentMap(batch)]
    /\ UNCHANGED <<settings, cacheVars, runVars, cache_probe, runs, tool_call>>

\* gather has every task's outcome: the map is built and returned.
extract_batch_return ==
    /\ batch # NoneRecord
    /\ ~batch.returned
    /\ \A i \in DOMAIN batch.task : batch.task[i] = "done"
    /\ batch' = [batch EXCEPT !.returned = TRUE,
                              !.content_map = ContentMap(batch)]
    /\ UNCHANGED <<settings, cacheVars, runVars, cache_probe, runs, tool_call>>

InitExtract ==
    /\ Init
    /\ settings.max_sources_to_process = MaxConfigured

NextExtract ==
    \/ extract_batch_call
    \/ \E i \in 1..MaxUrls : extract_acquire(i)
    \/ \E i \in 1..MaxUrls : extract_release(i)
    \/ extract_batch_return

SpecExtract == InitExtract /\ [][NextExtract]_vars

\* The event loop runs a task that is ready to run, and every fetch comes
\* to an end: a step of the batch that stays possible is taken.
SpecExtractFair == SpecExtract /\ WF_vars(NextExtract)

\* ------------------------------------------- the cache, call by call
\* The arguments the cache is called with: one topic written two ways, the
\* same topic under another depth and under the other flag, and a second
\* topic.
CacheArgs == {
    [topic |-> <<"A", "I">>, depth |-> "quick", include_academic |-> FALSE],
    [topic |-> <<" ", "a", "i", " ">>, depth |-> "quick",
     include_academic |-> FALSE],
    [topic |-> <<"A", "I">>, depth |-> "deep", include_academic |-> FALSE],
    [topic |-> <<"A", "I">>, depth |-> "quick", include_academic |-> TRUE],
    [topic |-> <<"m", "l">>, depth |-> "quick", include_academic |-> FALSE]
}

\* The results set() is handed for a topic.
CacheResults(topic) == {
    ResearchResult(topic, NoSourcesBriefing, << >>),
    ResearchResult(topic, Briefing(<<"## Executive Summary">>, << >>), << >>)
}

\* What the probe holds the calls under: the triple the cache is keyed by.
Triple(args) ==
    <<Strip(Lower(args.topic)), args.depth, args.include_academic>>

\* The probe's record of one call: the arguments, the clock and the
\* counters at the call, and what the call returned.
Call(op, args, result, returned) ==
    [op |-> op, args |-> args, result |-> result, at |-> clock,
     hits_before |-> hits, misses_before |-> misses, returned |-> returned]

NoCall == [op |-> "none"]

\* The probe before any call: no set on record.
NoLedger == [ledger |-> << >>, last |-> NoCall, prev |-> NoCall, calls |-> 0]

\* The probe after a call: the ledger holds, per triple, the latest set not
\* invalidated or cleared since.
Recorded(ledger, call) ==
    [ledger |-> ledger, last |-> call, prev |-> cache_probe.last,
     calls |-> cache_probe.calls + 1]

\* ResearchCache.get
ResearchCache_get(args) ==
    LET result == cache_get(store, args.topic, args.depth,
                            args.include_academic, clock)
    IN  /\ cache_probe.calls < MaxCacheOps
        /\ IF result # NoneRecord
           THEN hits' = hits + 1 /\ UNCHANGED misses
           ELSE misses' = misses + 1 /\ UNCHANGED hits
        /\ cache_probe' = Recorded(cache_probe.ledger,
                                   Call("get", args, NoneRecord, result))
        /\ UNCHANGED <<settings, store, clock, runVars, batch, runs, tool_call>>

\* ResearchCache.set
ResearchCache_set(args, result) ==
    /\ cache_probe.calls < MaxCacheOps
    /\ store' = cache_set(store, args.topic, args.depth, result,
                          args.include_academic, clock)
    /\ cache_probe' =
          Recorded([t \in DOMAIN cache_probe.ledger \cup {Triple(args)} |->
                       IF t = Triple(args)
                       THEN [result |-> result, at |-> clock]
                       ELSE cache_probe.ledger[t]],
                   Call("set", args, result, NoneRecord))
    /\ UNCHANGED <<settings, hits, misses, clock, runVars, batch, runs, tool_call>>

\* ResearchCache.invalidate
ResearchCache_invalidate(args) ==
    LET key   == make_key(args.topic, args.depth, args.include_academic)
        found == ttl_contains(store, key, clock)
    IN  /\ cache_probe.calls < MaxCacheOps
        /\ store' = IF found THEN ttl_delete(store, key) ELSE store
        /\ cache_probe' =
              Recorded([t \in DOMAIN cache_probe.ledger \ {Triple(args)} |->
                           cache_probe.ledger[t]],
                       Call("invalidate", args, NoneRecord, found))
        /\ UNCHANGED <<settings, hits, misses, clock, runVars, batch, runs, tool_call>>

\* ResearchCache.clear
ResearchCache_clear ==
    /\ cache_probe.calls < MaxCacheOps
    /\ store' = << >>
    /\ cache_probe' =
          Recorded(<< >>, Call("clear", NoneRecord, NoneRecord,
                               ttl_len(store, clock)))
    /\ UNCHANGED <<settings, hits, misses, clock, runVars, batch, runs, tool_call>>

\* Half of the TTL passes between two calls.
Tick ==
    /\ cache_probe # NoneRecord
    /\ clock < MaxClock * (ttl_hours \div 2)
    /\ clock' = clock + ttl_hours \div 2
    /\ cache_probe' = [cache_probe EXCEPT !.last = NoCall, !.prev = NoCall]
    /\ UNCHANGED <<settings, store, hits, misses, runVars, batch, runs, tool_call>>

\* ResearchCache(): an empty store and both counters at zero.
InitCache ==
    /\ settings = [max_sources_to_process |-> MaxConfigured]
    /\ store = << >>
    /\ hits = 0
    /\ misses = 0
    /\ clock = 0
    /\ request = NoneRecord
    /\ pc = "idle"
    /\ events = << >>
    /\ sources = << >>
    /\ filtered_sources = << >>
    /\ summarized_sources = << >>
    /\ briefing = NoneRecord
    /\ cached_result = NoneRecord
    /\ final_result = NoneRecord
    /\ probe = NoCalls
    /\ batch = NoneRecord
    /\ cache_probe = NoLedger
    /\ runs = << >>
    /\ tool_call = NoneRecord

NextCache ==
    \/ \E args \in CacheArgs : ResearchCache_get(args)
    \/ \E args \in CacheArgs :
          \E result \in CacheResults(args.topic) :
              ResearchCache_set(args, result)
    \/ \E args \in CacheArgs : ResearchCache_invalidate(args)
    \/ ResearchCache_clear
    \/ Tick

SpecCache == InitCache /\ [][NextCache]_vars

\* ------------------------------------ concurrent runs on the shared cache
\* stream_research calls cache.get before its first await and cache.set
\* after its last; both are synchronous, so each runs to its end before
\* another coroutine of the event loop is scheduled.  Between the two the
\* pipeline runs and other requests are served.
IdleRun == [pc |-> "idle", args |-> NoneRecord, result |-> NoneRecord]

\* stream_research: cache.get; a hit is served, a miss starts the pipeline.
run_get(r, args) ==
    LET found == cache_get(store, args.topic, args.depth,
                           args.include_academic, clock)
    IN  /\ runs[r].pc = "idle"
        /\ IF found # NoneRecord
           THEN /\ hits' = hits + 1
                /\ misses' = misses
                /\ runs' = [runs EXCEPT ![r] =
                              [pc |-> "served", args |-> args,
                               result |-> StripMeta(found)]]
           ELSE /\ misses' = misses + 1
                /\ hits' = hits
                /\ runs' = [runs EXCEPT ![r] =
                              [pc |-> "computing", args |-> args,
                               result |-> NoneRecord]]
        /\ UNCHANGED <<settings, store, clock, runVars, batch, cache_probe, tool_call>>

\* stream_research: the pipeline yielded its result; cache.set.
run_set(r) ==
    /\ runs[r].pc = "computing"
    /\ \E result \in CacheResults(runs[r].args.topic) :
          /\ store' = cache_set(store, runs[r].args.topic,
                                runs[r].args.depth, result,
                                runs[r].args.include_academic, clock)
          /\ runs' = [runs EXCEPT ![r].pc = "stored", ![r].result = result]
          /\ cache_probe' =
                [cache_probe EXCEPT !.ledger =
                    [t \in DOMAIN cache_probe.ledger
                             \cup {Triple(runs[r].args)} |->
                        IF t = Triple(runs[r].args)
                        THEN [result |-> result, at |-> clock]
                        ELSE cache_probe.ledger[t]],
                    !.calls = @ + 1]
    /\ UNCHANGED <<settings, hits, misses, clock, runVars, batch, tool_call>>

\* stream_research: the pipeline ended without a result (the zero-sources
\* error event, or a stage raised); nothing is written.
run_fail(r) ==
    /\ runs[r].pc = "computing"
    /\ runs' = [runs EXCEPT ![r].pc = "failed"]
    /\ UNCHANGED <<settings, cacheVars, runVars, batch, cache_probe, tool_call>>

\* An empty cache and MaxRuns requests about to arrive.
InitRuns ==
    /\ settings = [max_sources_to_process |-> MaxConfigured]
    /\ store = << >>
    /\ hits = 0
    /\ misses = 0
    /\ clock = 0
    /\ request = NoneRecord
    /\ pc = "idle"
    /\ events = << >>
    /\ sources = << >>
    /\ filtered_sources = << >>
    /\ summarized_sources = << >>
    /\ briefing = NoneRecord
    /\ cached_result = NoneRecord
    /\ final_result = NoneRecord
    /\ probe = NoCalls
    /\ batch = NoneRecord
    /\ cache_probe = NoLedger
    /\ runs = [r \in 1..MaxRuns |-> IdleRun]
    /\ tool_call = NoneRecord

NextRuns ==
    \/ \E r \in 1..MaxRuns : \E args \in CacheArgs : run_get(r, args)
    \/ \E r \in 1..MaxRuns : run_set(r)
    \/ \E r \in 1..MaxRuns : run_fail(r)

SpecRuns == InitRuns /\ [][NextRuns]_vars

\* --------------------------------------- the credibility filter on its own
\* URLs at the two ends of the scale: every red flag on the lowest table
\* entry, over-long and without https; the highest table entry with https.
url_lowest ==
    [scheme |-> "http", host |-> <<"blogspot", ".", "com">>,
     path |-> <<"spam", "fake", "clickbait", "12345678", "ads", "promo">>,
     length |-> 250, parses |-> TRUE]

url_highest ==
    [scheme |-> "https", host |-> <<"www", ".", "science", ".", "org">>,
     path |-> <<"doi">>, length |-> 40, parses |-> TRUE]

\* A text urlparse raises on.
url_unparseable ==
    [scheme |-> "http", host |-> <<>>, path |-> << >>, length |-> 20,
     parses |-> FALSE]

\* The URLs the tool is asked to score.
ScoredUrls ==
    {WebRanking[i].url : i \in DOMAIN WebRanking}
    \cup {url_arxiv_paper, url_s2_paper, url_lowest, url_highest,
          url_unparseable}

\* The sources filter_sources is handed: web hits with the default score of
\* the schema, two of them of one score, and two sources a search provider
\* scored itself, above and below the level a score is kept at.
FilterPool == {
    Source(WebRanking[1], 50), Source(WebRanking[2], 50),
    Source(WebRanking[5], 50), Source(WebRanking[6], 50),
    Source(WebRanking[7], 50), Source(s2_paper, 80),
    Source(arxiv_paper, 85)
}

\* The lists of at most n different sources of the pool.
SourceLists(n) ==
    {s \in SeqsUpTo(FilterPool, n) :
        \A i, j \in DOMAIN s : s[i] = s[j] => i = j}

\* The filter_sources calls made between two scorings of one URL.
CallsBetween == SourceLists(1) \X {NoMinScore, lowered_threshold}

\* The min_score arguments: omitted, zero, the retry's, one few sources reach.
MinScores == {NoMinScore, 0, lowered_threshold, 90}

\* A scorer whose answer is one hundredth lower once the filter has run.
credibility_run_drifting(url) ==
    IF tool_call.between = "filter_sources"
    THEN Max(0, calculate_score(url) - 1)
    ELSE calculate_score(url)

\* CredibilityFilterTool._run / _arun: the score of a URL.
credibility_run(url) == calculate_score(url)

\* The first call of a tool that was just built.
NoToolCall ==
    [kept |-> NoneRecord, between |-> "nothing", last |-> NoneRecord]

\* credibility_filter.run(url): the first call is kept to compare with.
CredibilityFilterTool_run(url) ==
    LET answer == [op |-> "run", url |-> url, score |-> credibility_run(url)]
    IN  /\ tool_call' =
              IF tool_call.kept = NoneRecord
              THEN [kept |-> answer, between |-> "nothing", last |-> answer]
              ELSE [tool_call EXCEPT !.last = answer]
        /\ UNCHANGED <<settings, cacheVars, runVars, batch, cache_probe, runs>>

\* credibility_filter.filter_sources(sources, min_score) between two
\* scorings.
CredibilityFilterTool_filter_sources(listed, min_score) ==
    /\ tool_call' =
          [tool_call EXCEPT
              !.between = IF tool_call.kept = NoneRecord THEN "nothing"
                          ELSE "filter_sources",
              !.last = [op |-> "filter_sources", sources |-> listed,
                        min_score |-> min_score,
                        returned |-> filter_sources(min_credibility, listed,
                                                    min_score)]]
    /\ UNCHANGED <<settings, cacheVars, runVars, batch, cache_probe, runs>>

InitScorer ==
    /\ settings = [max_sources_to_process |-> MaxConfigured]
    /\ store = << >>
    /\ hits = 0
    /\ misses = 0
    /\ clock = 0
    /\ request = NoneRecord
    /\ pc = "idle"
    /\ events = << >>
    /\ sources = << >>
    /\ filtered_sources = << >>
    /\ summarized_sources = << >>
    /\ briefing = NoneRecord
    /\ cached_result = NoneRecord
    /\ final_result = NoneRecord
    /\ probe = NoCalls
    /\ batch = NoneRecord
    /\ cache_probe = NoLedger
    /\ runs = << >>
    /\ tool_call = NoToolCall

NextScorer ==
    \/ \E url \in ScoredUrls : CredibilityFilterTool_run(url)
    \/ \E c \in CallsBetween :
          CredibilityFilterTool_filter_sources(c[1], c[2])

SpecScorer == InitScorer /\ [][NextScorer]_vars

\* A stand-alone filter_sources call: the arguments as they were handed
\* over, the Source objects of the list, which the call writes to, and the
\* list returned once the call has ended.
FilterCall(listed, min_score) ==
    [op |-> "filter_sources", sources |-> listed, min_score |-> min_score,
     done |-> FALSE, objects |-> listed, returned |-> << >>]

\* filter_sources(sources, min_score) of a tool built with the
\* orchestrator's min_credibility.
filter_sources_return ==
    /\ ~tool_call.done
    /\ tool_call' =
          [tool_call EXCEPT
              !.done = TRUE,
              !.objects = ScoredSources(tool_call.sources),
              !.returned = filter_sources(min_credibility, tool_call.sources,
                                          tool_call.min_score)]
    /\ UNCHANGED <<settings, cacheVars, runVars, batch, cache_probe, runs>>

InitFilter ==
    /\ settings = [max_sources_to_process |-> MaxConfigured]
    /\ store = << >>
    /\ hits = 0
    /\ misses = 0
    /\ clock = 0
    /\ request = NoneRecord
    /\ pc = "idle"
    /\ events = << >>
    /\ sources = << >>
    /\ filtered_sources = << >>
    /\ summarized_sources = << >>
    /\ briefing = NoneRecord
    /\ cached_result = NoneRecord
    /\ final_result = NoneRecord
    /\ probe = NoCalls
    /\ batch = NoneRecord
    /\ cache_probe = NoLedger
    /\ runs = << >>
    /\ tool_call \in {FilterCall(listed, min_score) :
                          listed \in SourceLists(MaxListed),
                          min_score \in MinScores}

SpecFilter == InitFilter /\ [][filter_sources_return]_vars

\* ---------------------------------------------- red flags, URL against URL
\* Hosts to score: one for every entry of the domain table, one the
\* table does not know, and one that holds a key inside a longer label.
ScoredHosts ==
    {IF CREDIBILITY_SCORES[i].tld
     THEN <<"example">> \o CREDIBILITY_SCORES[i].key
     ELSE CREDIBILITY_SCORES[i].key : i \in DOMAIN CREDIBILITY_SCORES}
    \cup {<<"example", ".", "net">>, <<"netfli", "x", ".", "com">>}

\* A URL and the same URL with one more red flag in its path, to be scored
\* one after the other.
InitFlags ==
    /\ settings = [max_sources_to_process |-> MaxConfigured]
    /\ store = << >>
    /\ hits = 0
    /\ misses = 0
    /\ clock = 0
    /\ request = NoneRecord
    /\ pc = "idle"
    /\ events = << >>
    /\ sources = << >>
    /\ filtered_sources = << >>
    /\ summarized_sources = << >>
    /\ briefing = NoneRecord
    /\ cached_result = NoneRecord
    /\ final_result = NoneRecord
    /\ probe = NoCalls
    /\ batch = NoneRecord
    /\ cache_probe = NoLedger
    /\ runs = << >>
    /\ \E host \in ScoredHosts, scheme \in {"http", "https"},
          length \in {40, 250}, I \in SUBSET DOMAIN RED_FLAGS :
          \E extra \in DOMAIN RED_FLAGS \ I :
             LET url(J) == [scheme |-> scheme, host |-> host,
                            path |-> Pick(url_lowest.path, J, 1),
                            length |-> length, parses |-> TRUE]
             IN  tool_call = [urls |-> <<url(I), url(I \cup {extra})>>,
                              scores |-> << >>]

\* credibility_filter.arun(url) for the next URL of the pair.
CredibilityFilterTool_arun ==
    /\ Len(tool_call.scores) < Len(tool_call.urls)
    /\ tool_call' =
          [tool_call EXCEPT !.scores =
              Append(@, credibility_run(tool_call.urls[Len(@) + 1]))]
    /\ UNCHANGED <<settings, cacheVars, runVars, batch, cache_probe, runs>>

SpecFlags == InitFlags /\ [][CredibilityFilterTool_arun]_vars

\* ------------------------------------------------ the synthesizer on its own
\* Texts the model backend answers with: no section; a "## References" and
\* a "## Sources" section; a third-level and a first-level References
\* heading; the words "## Sources" inside a sentence; blank ends.
SynthesisTexts == {
    <<"#", "#", " ", "Executive Summary">>,
    <<"#", "#", " ", "Executive Summary", "\n",
      "#", "#", " ", "References">>,
    <<"#", "#", " ", "Executive Summary", "\n", "#", "#", " ", "Sources">>,
    <<"#", "#", " ", "Executive Summary", "\n",
      "#", "#", "#", " ", "References">>,
    <<"#", "#", " ", "Executive Summary", "\n", "#", " ", "References">>,
    <<"#", "#", " ", "Executive Summary", "\n",
      "see", " ", "#", "#", " ", "Sources">>,
    <<"\n", "#", "#", " ", "Executive Summary", "\n", " ">>
}

\* A stand-alone synthesize(topic, sources) call with the model's answer.
InitSynthesize ==
    /\ settings = [max_sources_to_process |-> MaxConfigured]
    /\ store = << >>
    /\ hits = 0
    /\ misses = 0
    /\ clock = 0
    /\ request = NoneRecord
    /\ pc = "idle"
    /\ events = << >>
    /\ sources = << >>
    /\ filtered_sources = << >>
    /\ summarized_sources = << >>
    /\ briefing = NoneRecord
    /\ cached_result = NoneRecord
    /\ final_result = NoneRecord
    /\ probe = NoCalls
    /\ batch = NoneRecord
    /\ cache_probe = NoLedger
    /\ runs = << >>
    /\ \E listed \in SourceLists(MaxListed), result \in SynthesisTexts :
          tool_call = [op |-> "synthesize", sources |-> listed,
                       result |-> result, returned |-> NoneRecord]

\* SynthesizerChain.synthesize returns.
synthesize_return ==
    /\ tool_call.returned = NoneRecord
    /\ tool_call' = [tool_call EXCEPT !.returned =
                        synthesize(tool_call.sources, tool_call.result)]
    /\ UNCHANGED <<settings, cacheVars, runVars, batch, cache_probe, runs>>

SpecSynthesize == InitSynthesize /\ [][synthesize_return]_vars

\* ------------------------------------------ the academic provider on its own
\* A stand-alone search(query) of a tool built with a result cap: what the
\* two sub-searches come back with.
InitAcademic ==
    /\ settings = [max_sources_to_process |-> MaxConfigured]
    /\ store = << >>
    /\ hits = 0
    /\ misses = 0
    /\ clock = 0
    /\ request = NoneRecord
    /\ pc = "idle"
    /\ events = << >>
    /\ sources = << >>
    /\ filtered_sources = << >>
    /\ summarized_sources = << >>
    /\ briefing = NoneRecord
    /\ cached_result = NoneRecord
    /\ final_result = NoneRecord
    /\ probe = NoCalls
    /\ batch = NoneRecord
    /\ cache_probe = NoLedger
    /\ runs = << >>
    /\ \E cap \in 0..MaxCap :
          \E ax \in ArxivOutcomes(cap), sx \in S2Outcomes(cap) :
             tool_call = [op |-> "search", max_results |-> cap,
                          arxiv_results |-> ax, semantic_results |-> sx,
                          done |-> FALSE, returned |-> << >>]

\* AcademicSearchTool.search returns.
academic_search_return ==
    /\ ~tool_call.done
    /\ tool_call' =
          [tool_call EXCEPT
              !.done = TRUE,
              !.returned = academic_search(tool_call.arxiv_results,
                                           tool_call.semantic_results,
                                           tool_call.max_results)]
    /\ UNCHANGED <<settings, cacheVars, runVars, batch, cache_probe, runs>>

SpecAcademic == InitAcademic /\ [][academic_search_return]_vars

\* ----------------------------- research(), task by task after the filter
\* The run behind its filter stage: the filtered sources are a sub-list of
\* two web pages, a web hit on an academic domain without a snippet, and
\* an academic paper.
InitStages ==
    /\ settings = [max_sources_to_process |-> MaxConfigured]
    /\ store = << >>
    /\ hits = 0
    /\ misses = 1
    /\ clock = 0
    /\ request = NoneRecord
    /\ pc = "extract"
    /\ events = << >>
    /\ \E listed \in SubListsUpTo(<<Source(WebRanking[5], 50),
                                    Source(WebRanking[2], 50),
                                    Source(WebRanking[6], 50),
                                    Source(arxiv_paper, 85)>>, MaxUrls) :
          /\ sources = listed
          /\ filtered_sources = ScoredSources(listed)
    /\ summarized_sources = << >>
    /\ briefing = NoneRecord
    /\ cached_result = NoneRecord
    /\ final_result = NoneRecord
    /\ probe = NoCalls
    /\ batch = NoneRecord
    /\ cache_probe = NoneRecord
    /\ runs = << >>
    /\ tool_call = NoneRecord

\* research(): extract_batch(web_urls), with the default max_concurrent of
\* 5, is called only for a non-empty web_urls; for an empty one the
\* content map is {} at once.
research_extract_batch ==
    /\ pc = "extract"
    /\ batch = NoneRecord
    /\ LET web_urls == WebUrls(filtered_sources)
       IN  batch' = IF web_urls # << >>
                    THEN NewBatch(web_urls, 5)
                    ELSE [NewBatch(<< >>, 5) EXCEPT !.returned = TRUE]
    /\ pc' = "extracting"
    /\ UNCHANGED <<settings, cacheVars, request, events, sources,
                   filtered_sources, summarized_sources, briefing,
                   cached_result, final_result, probe, cache_probe, runs,
                   tool_call>>

\* research(): the content map is there; content update, summarizing
\* event, sources_for_summary, and summarize_batch up to its gather: every
\* summarize_one runs to its first await, so a source that needs no model
\* call has its summary at once, and every other call is with the model.
research_summarize_batch ==
    /\ pc = "extracting"
    /\ batch.returned
    /\ filtered_sources' = WithContent(filtered_sources, batch.content_map)
    /\ events' = Append(events,
          Progress("summarizing", Checkpoints.summarizing, Len(sources),
                   Len(filtered_sources)))
    /\ LET srcs   == SourcesForSummary(filtered_sources')
           direct == {i \in DOMAIN srcs : ~NeedsModel(srcs[i].content)}
       IN  tool_call' =
              [sources |-> srcs,
               task    |-> [i \in DOMAIN srcs |->
                              IF i \in direct THEN "done" ELSE "calling"],
               summary |-> [i \in DOMAIN srcs |->
                              IF i \in direct THEN UnableToSummarize ELSE None],
               order   |-> Pick([i \in DOMAIN srcs |-> i], direct, 1)]
    /\ pc' = "summarizing"
    /\ UNCHANGED <<settings, cacheVars, request, sources, summarized_sources,
                   briefing, cached_result, final_result, probe, batch,
                   cache_probe, runs>>

\* summarize_one(sources[i]): the model backend answers, or its call
\* raises.  A task goes on after gather has passed on another's exception.
summarize_done(i) ==
    /\ tool_call # NoneRecord
    /\ i \in DOMAIN tool_call.task
    /\ tool_call.task[i] = "calling"
    /\ \E backend_ok \in BOOLEAN :
          tool_call' =
             IF backend_ok
             THEN [tool_call EXCEPT
                     !.task[i] = "done",
                     !.summary[i] = summarize(tool_call.sources[i].title,
                                              tool_call.sources[i].content),
                     !.order = Append(@, i)]
             ELSE [tool_call EXCEPT !.task[i] = "raised"]
    /\ UNCHANGED <<settings, cacheVars, runVars, batch, cache_probe, runs>>

\* A gather that lists its results as the calls completed.
gather_results_as_completed(b) ==
    [k \in DOMAIN b.order |->
        [f \in DOMAIN b.sources[b.order[k]] \cup {"summary"} |->
            IF f = "summary"
            THEN b.summary[b.order[k]]
            ELSE b.sources[b.order[k]][f]]]

\* 'list(await asyncio.gather(*tasks))': the dictionaries
\* {**source, "summary": summary} in the order of the tasks.
gather_results(b) ==
    [i \in DOMAIN b.sources |->
        [f \in DOMAIN b.sources[i] \cup {"summary"} |->
            IF f = "summary" THEN b.summary[i] ELSE b.sources[i][f]]]

\* summarize_batch returns once every call has completed, and research()
\* stores the summaries and yields the synthesizing event; or gather passes
\* on the exception of a call that raised, which ends research().
summarize_batch_return ==
    /\ pc = "summarizing"
    /\ \/ /\ \A i \in DOMAIN tool_call.task : tool_call.task[i] = "done"
          /\ LET results    == gather_results(tool_call)
                 summarized == IF results = << >>
                               THEN tool_call.sources ELSE results
             IN  /\ summarized_sources' = summarized
                 /\ filtered_sources' =
                       WithSummaries(filtered_sources, summarized)
          /\ probe' = [probe EXCEPT
                !.llm_summarize = ModelCalls(tool_call.sources)]
          /\ events' = Append(events,
                Progress("synthesizing", Checkpoints.synthesizing,
                         Len(sources), Len(filtered_sources)))
          /\ pc' = "synthesize"
       \/ /\ \E i \in DOMAIN tool_call.task : tool_call.task[i] = "raised"
          /\ probe' = [probe EXCEPT
                !.llm_summarize = ModelCalls(tool_call.sources),
                !.raised = "summarize"]
          /\ events' = OnException(events)
          /\ pc' = "raised_end"
          /\ UNCHANGED <<summarized_sources, filtered_sources>>
    /\ UNCHANGED <<settings, cacheVars, request, sources, briefing,
                   cached_result, final_result, batch, cache_probe, runs,
                   tool_call>>

SpecStages ==
    InitStages /\ [][\/ research_extract_batch
                     \/ \E i \in 1..MaxUrls : extract_acquire(i)
                     \/ \E i \in 1..MaxUrls : extract_release(i)
                     \/ extract_batch_return
                     \/ research_summarize_batch
                     \/ \E i \in 1..MaxUrls : summarize_done(i)
                     \/ summarize_batch_return
                     \/ research_synthesize]_vars

\* ------------------------------------------------- properties of a run
IsProgress(e) == e.event = "progress"

IsResult(e) == e.event = "result"

\* A terminal item: the result, the error item of stream_research, or the
\* error progress event of research().
IsTerminal(e) ==
    \/ e.event = "result"
    \/ e.event = "error"
    \/ (e.event = "progress" /\ e.status = "error")

IsErrorProgress(e) == e.event = "progress" /\ e.status = "error"

\* The positions of events that satisfy a test.
Positions(Test(_)) == {i \in DOMAIN events : Test(events[i])}

\* The run's web search has returned, and returned nothing.
WebSearchEmpty == probe.web = 1 /\ probe.web_hits = 0

\* The run's web search has returned at least one source.
PastWebSearch == probe.web = 1 /\ probe.web_hits > 0

\* <<status, progress>> of every progress event, in order.
ProgressTrail ==
    LET ps == SelectSeq(events, IsProgress)
    IN  [i \in DOMAIN ps |-> <<ps[i].status, ps[i].progress>>]

\* The fixed stage order of the spec.
StageOrder(include_academic) ==
    <<<<"searching", 10>>>>
    \o (IF include_academic THEN <<<<"searching", 15>>>> ELSE << >>)
    \o <<<<"searching", 20>>, <<"extracting", 30>>, <<"summarizing", 50>>,
         <<"synthesizing", 80>>, <<"completed", 100>>>>

\* C1: when the web search returns an empty list the run emits exactly one
\* progress event with status error, yields no result, and ends there:
\* academic search, filter, extraction, summarization and synthesis are
\* never invoked, whether or not academic search was requested.
C1_ZeroSourcesEndsRun ==
    WebSearchEmpty =>
        /\ pc \in {"error_end", "done"}
        /\ Cardinality(Positions(IsErrorProgress)) = 1
        /\ IsErrorProgress(events[Len(events)])
        /\ Positions(IsResult) = {}
        /\ final_result = NoneRecord
        /\ probe.academic = 0
        /\ probe.filter = << >>
        /\ probe.fetch = << >>
        /\ probe.llm_summarize = 0
        /\ probe.llm_synthesize = 0

C1_Witness ==
    /\ WebSearchEmpty
    /\ pc = "done"
    /\ request.include_academic

\* C2: the items delivered to the consumer end with exactly one terminal
\* item, a result or an error, for a cache hit and a miss and whatever the
\* search, extraction and model-backend calls do; nothing is delivered
\* after a terminal item, and a finished stream does not end on a
\* non-terminal progress event.
C2_OneTerminalItemLast ==
    /\ \A i \in DOMAIN events : IsTerminal(events[i]) => i = Len(events)
    /\ pc = "done" => (events # << >> /\ IsTerminal(events[Len(events)]))

C2_Witness ==
    /\ pc = "done"
    /\ probe.raised = "synthesize"
    /\ events[Len(events)] = ErrorEvent

\* C3: once the web search has returned a source, a model-
\* backend failure during summarize_batch does not abort the run and raises
\* nothing past the orchestrator: the run goes on to synthesizing and
\* completed and yields a result.
C3_SummarizationFailureDegrades ==
    (PastWebSearch /\ probe.raised = "summarize") =>
        /\ ErrorEvent \notin Range(events)
        /\ pc # "raised_end"
        /\ pc = "done" =>
              /\ <<"synthesizing", 80>> \in Range(ProgressTrail)
              /\ <<"completed", 100>> \in Range(ProgressTrail)
              /\ IsResult(events[Len(events)])

\* C4: every run that gets past the web search emits exactly
\* the fixed stage order, nothing reordered, duplicated or skipped, and the
\* result is the item right after completed and the last item.
C4_FixedStageOrder ==
    (PastWebSearch /\ pc = "done") =>
        /\ ProgressTrail = StageOrder(request.include_academic)
        /\ Len(events) = Len(ProgressTrail) + 1
        /\ IsResult(events[Len(events)])

\* C5: the progress value of each progress event of a run, the error event
\* included, is strictly greater than that of the event before it, and 1.0
\* appears only on completed.
C5_ProgressStrictlyIncreases ==
    /\ \A i \in DOMAIN ProgressTrail :
          i > 1 => ProgressTrail[i][2] > ProgressTrail[i - 1][2]
    /\ \A i \in DOMAIN ProgressTrail :
          ProgressTrail[i][2] = 100 => ProgressTrail[i][1] = "completed"

\* C6: the number of sources in the final result never exceeds the
\* depth-derived maximum: 3 for quick, the configured default for standard,
\* the default plus 3 for deep, the default for any other depth.
C6_ResultWithinDepthMaximum ==
    final_result # NoneRecord =>
        Len(final_result.sources) <=
            (IF request.depth = "quick" THEN 3
             ELSE IF request.depth = "deep"
                  THEN settings.max_sources_to_process + 3
                  ELSE settings.max_sources_to_process)

\* A deep run whose filter kept more sources than the maximum.
C6_Witness ==
    /\ final_result # NoneRecord
    /\ request.depth = "deep"
    /\ Len(final_result.sources) = settings.max_sources_to_process + 3
    /\ Cardinality({i \in DOMAIN sources : sources[i].credibility_score >= 40})
          > settings.max_sources_to_process + 3

\* The positions in sources of the sources whose score, once filter_sources
\* has scored them, is at least a threshold.
Survivors(threshold) ==
    {i \in DOMAIN sources : sources[i].credibility_score >= threshold}

ScoredAtLeast(threshold) == Cardinality(Survivors(threshold))

\* The filter ran once when its first pass kept a source and once more, at
\* 0.2, when it kept none.
RetryExactlyWhenEmptied ==
    /\ ScoredAtLeast(40) > 0 => probe.filter = <<40>>
    /\ ScoredAtLeast(40) = 0 => probe.filter = <<40, 20>>

\* A run whose two passes kept nothing raises no error and completes.
EmptyRetryStillCompletes ==
    (probe.filter = <<40, 20>> /\ ScoredAtLeast(20) = 0) =>
        /\ probe.raised = "none"
        /\ ErrorEvent \notin Range(events)
        /\ ~IsErrorProgress(events[Len(events)])
        /\ pc \notin {"raised_end", "error_end"}
        /\ pc = "done" =>
              /\ <<"completed", 100>> \in Range(ProgressTrail)
              /\ IsResult(events[Len(events)])

\* C7 (as claimed): when the filter at the configured threshold removes
\* every source it is run exactly once more, at 0.2, and never again when
\* the first pass keeps a source; the processed set is then the survivors
\* of the 0.2 pass, and when there are none the run raises no error and
\* still reaches completed.
C7_LoweredThresholdRetry ==
    probe.filter # << >> =>
        /\ RetryExactlyWhenEmptied
        /\ probe.filter = <<40, 20>> =>
              /\ Len(filtered_sources) = ScoredAtLeast(20)
              /\ \A j \in Survivors(20) :
                    \E i \in DOMAIN filtered_sources :
                        filtered_sources[i].url = sources[j].url
        /\ EmptyRetryStillCompletes

\* C7 (amended): the retry happens exactly when the first pass kept
\* nothing, once, at 0.2; the processed set is then the highest-scored
\* survivors of the 0.2 pass, as many as the depth maximum allows; and when
\* there are none the run raises no error and still reaches completed.
C7_RetryKeepsBestSurvivors ==
    probe.filter # << >> =>
        /\ RetryExactlyWhenEmptied
        /\ probe.filter = <<40, 20>> =>
              /\ Len(filtered_sources) = Min(MaxSources, ScoredAtLeast(20))
              /\ \A i \in DOMAIN filtered_sources :
                    /\ filtered_sources[i].credibility_score >= 20
                    /\ \E j \in Survivors(20) :
                          /\ sources[j].url = filtered_sources[i].url
                          /\ sources[j].credibility_score
                                = filtered_sources[i].credibility_score
                    /\ \A j \in Survivors(20) :
                          (\A k \in DOMAIN filtered_sources :
                              filtered_sources[k].url # sources[j].url)
                          => sources[j].credibility_score
                                <= filtered_sources[i].credibility_score
        /\ EmptyRetryStillCompletes

\* The retry ran, more sources survived it than the depth maximum, and the
\* run completed on the sources that were kept.
C7_Witness ==
    /\ probe.filter = <<40, 20>>
    /\ ScoredAtLeast(20) > MaxSources
    /\ filtered_sources # << >>
    /\ pc = "done"
    /\ IsResult(events[Len(events)])

\* The retry ran, nothing survived it, and the run completed.
RetryEmptyCompleted ==
    /\ probe.filter = <<40, 20>>
    /\ filtered_sources = << >>
    /\ pc = "done"
    /\ IsResult(events[Len(events)])

\* C8: during extract_batch(urls, max_concurrent), under every interleaving
\* of the per-URL tasks, the number of fetches outstanding at the same time
\* never exceeds max_concurrent, and the returned map has an entry for
\* every input URL, the text its fetch ended in, whether that fetch
\* succeeded or failed.
C8_BoundedFetchesCompleteMap ==
    batch # NoneRecord =>
        /\ Cardinality(Outstanding(batch)) <= batch.max_concurrent
        /\ batch.returned =>
              \A i \in DOMAIN batch.urls :
                  /\ batch.urls[i] \in DOMAIN batch.content_map
                  /\ \E j \in DOMAIN batch.urls :
                        /\ batch.urls[j] = batch.urls[i]
                        /\ batch.content_map[batch.urls[i]] = batch.results[j]
                        /\ batch.results[j] \in BatchTexts

\* A returned batch of more URLs than permits, one fetch of which failed
\* and one of which succeeded.
C8_Witness ==
    /\ batch # NoneRecord
    /\ batch.returned
    /\ batch.max_concurrent >= 1
    /\ Len(batch.urls) > batch.max_concurrent
    /\ \E u \in DOMAIN batch.content_map :
          StartsWithError(batch.content_map[u])
    /\ \E u \in DOMAIN batch.content_map :
          batch.content_map[u] = "page text"

\* The probe holds a live set for the arguments: the latest set under the
\* same normalised topic, depth and flag, not invalidated or cleared since,
\* whose TTL has not elapsed.
LiveSet(args) ==
    /\ Triple(args) \in DOMAIN cache_probe.ledger
    /\ clock < cache_probe.ledger[Triple(args)].at + ttl_hours

\* The value equals the result plus the cached_at and cache_key fields.
ResultPlusMeta(value, result) ==
    /\ DOMAIN value = DOMAIN result \cup {"cached_at", "cache_key"}
    /\ \A f \in DOMAIN result : value[f] = result[f]

\* C9: a cache get hits exactly when a live entry was set under the same
\* depth, the same academic flag and a topic that is equal after
\* lower-casing and trimming; a hit immediately after a set returns the
\* result handed to that set plus cached_at and cache_key; and a get that
\* differs from the only set in depth or in the flag misses.
C9_HitExactlyOnLiveEntry ==
    (cache_probe # NoneRecord /\ cache_probe.last.op = "get") =>
        LET call == cache_probe.last
            prev == cache_probe.prev
        IN  /\ (call.returned # NoneRecord) <=> LiveSet(call.args)
            /\ (prev.op = "set" /\ Triple(prev.args) = Triple(call.args)) =>
                  /\ call.returned # NoneRecord
                  /\ ResultPlusMeta(call.returned, prev.result)
            /\ (/\ prev.op = "set"
                /\ DOMAIN cache_probe.ledger = {Triple(prev.args)}
                /\ prev.args.topic = call.args.topic
                /\ \/ prev.args.depth # call.args.depth
                   \/ prev.args.include_academic # call.args.include_academic)
                  => call.returned = NoneRecord

\* A get right after a set of the same topic written differently hits.
C9_Witness ==
    /\ cache_probe # NoneRecord
    /\ cache_probe.last.op = "get"
    /\ cache_probe.prev.op = "set"
    /\ cache_probe.prev.args.topic # cache_probe.last.args.topic
    /\ Triple(cache_probe.prev.args) = Triple(cache_probe.last.args)
    /\ cache_probe.last.returned # NoneRecord

\* C10: a get for an entry whose TTL has elapsed since it was set returns
\* absent and adds one to the miss counter, leaving the hit counter as it
\* was; a get before the TTL has elapsed returns the entry and adds one to
\* the hit counter only.
C10_ExpiryCountsAsMiss ==
    (/\ cache_probe # NoneRecord
     /\ cache_probe.last.op = "get"
     /\ Triple(cache_probe.last.args) \in DOMAIN cache_probe.ledger) =>
        LET call  == cache_probe.last
            entry == cache_probe.ledger[Triple(call.args)]
        IN  IF clock >= entry.at + ttl_hours
            THEN /\ call.returned = NoneRecord
                 /\ misses = call.misses_before + 1
                 /\ hits = call.hits_before
            ELSE /\ call.returned # NoneRecord
                 /\ ResultPlusMeta(call.returned, entry.result)
                 /\ hits = call.hits_before + 1
                 /\ misses = call.misses_before

\* A get at the moment the TTL of the entry has elapsed.
C10_Witness ==
    /\ cache_probe # NoneRecord
    /\ cache_probe.last.op = "get"
    /\ Triple(cache_probe.last.args) \in DOMAIN cache_probe.ledger
    /\ clock = cache_probe.ledger[Triple(cache_probe.last.args)].at + ttl_hours
    /\ misses = cache_probe.last.misses_before + 1

\* The concurrent runs whose get has returned, and those it served.
RunsPastGet == {r \in DOMAIN runs : runs[r].pc # "idle"}

RunsServed == {r \in DOMAIN runs : runs[r].pc = "served"}

\* C11: under every interleaving of the get and set calls of concurrent
\* runs, each get has changed exactly one of the two counters by one (hits
\* counts the gets that were served, misses the others, and their sum the
\* completed gets), and the cache holds at most one entry per key, whose
\* content is the result handed to the latest set for that key; two runs
\* for one key that both missed and both wrote leave the later write.
C11_ConcurrentGetSet ==
    runs # << >> =>
        /\ hits = Cardinality(RunsServed)
        /\ misses = Cardinality(RunsPastGet \ RunsServed)
        /\ hits + misses = Cardinality(RunsPastGet)
        /\ Cardinality(DOMAIN store) = Cardinality(DOMAIN cache_probe.ledger)
        /\ \A r \in DOMAIN runs :
              runs[r].pc = "stored" =>
                  LET key == make_key(runs[r].args.topic, runs[r].args.depth,
                                      runs[r].args.include_academic)
                  IN  /\ key \in DOMAIN store
                      /\ Triple(runs[r].args) \in DOMAIN cache_probe.ledger
                      /\ ResultPlusMeta(store[key].value,
                            cache_probe.ledger[Triple(runs[r].args)].result)
                      /\ \E q \in DOMAIN runs :
                            /\ runs[q].pc = "stored"
                            /\ Triple(runs[q].args) = Triple(runs[r].args)
                            /\ StripMeta(store[key].value) = runs[q].result

\* Two runs for one key both missed and both wrote, with different results.
C11_Witness ==
    /\ runs # << >>
    /\ misses = 2
    /\ hits = 0
    /\ \E r \in DOMAIN runs : \E q \in DOMAIN runs :
          /\ r # q
          /\ runs[r].pc = "stored"
          /\ runs[q].pc = "stored"
          /\ Triple(runs[r].args) = Triple(runs[q].args)
          /\ runs[r].args.topic # runs[q].args.topic
          /\ runs[r].result.briefing # runs[q].result.briefing

\* C12: the cache is written only with the final result of a run.  A run
\* that ends in the zero-sources error event, or because a stage raised,
\* leaves the cache as it found it; a store that differs from the one the
\* run found holds, under the run's key, the result the run yielded last;
\* and no stored value is a progress event.
C12_OnlyFinalResultCached ==
    /\ (WebSearchEmpty \/ probe.raised # "none") =>
          /\ store = EarlierStore
          /\ probe.cache_set = 0
    /\ store # EarlierStore =>
          /\ pc = "done"
          /\ final_result # NoneRecord
          /\ events[Len(events)] = ResultEvent(final_result)
          /\ probe.cache_set = 1
          /\ store = cache_set(EarlierStore, request.topic, request.depth,
                               final_result, request.include_academic, clock)
    /\ \A k \in DOMAIN store :
          /\ "event" \notin DOMAIN store[k].value
          /\ "status" \notin DOMAIN store[k].value
          /\ \/ ResultPlusMeta(store[k].value, EarlierResult)
             \/ /\ final_result # NoneRecord
                /\ ResultPlusMeta(store[k].value, final_result)

C12_Witness ==
    /\ pc = "done"
    /\ probe.raised = "summarize"
    /\ Len(events) > 3
    /\ store = EarlierStore

\* The stand-alone filter_sources call has returned.
FilterReturned == tool_call.done

\* The place of a source, known by its title, in a list that holds it.
PlaceIn(listed, source) ==
    CHOOSE i \in DOMAIN listed : listed[i].title = source.title

\* C13: the list filter_sources returns is in descending order of
\* credibility_score, holds no source whose score is below the min_score it
\* was called with, and holds sources of equal score in the order they had
\* in the input.
C13_FilterSortedStable ==
    FilterReturned =>
        LET out == tool_call.returned
            inp == tool_call.sources
        IN  /\ \A i, j \in DOMAIN out :
                  i < j => out[i].credibility_score >= out[j].credibility_score
            /\ tool_call.min_score # NoMinScore =>
                  \A i \in DOMAIN out :
                      out[i].credibility_score >= tool_call.min_score
            /\ \A i \in DOMAIN out :
                  \E k \in DOMAIN inp : inp[k].title = out[i].title
            /\ \A i, j \in DOMAIN out :
                  (i < j /\ out[i].credibility_score = out[j].credibility_score)
                      => PlaceIn(inp, out[i]) < PlaceIn(inp, out[j])

C13_Witness ==
    /\ FilterReturned
    /\ tool_call.min_score = 90
    /\ Len(tool_call.sources) = 3
    /\ Len(tool_call.returned) = 2
    /\ tool_call.returned[1].credibility_score
          = tool_call.returned[2].credibility_score
    /\ PlaceIn(tool_call.sources, tool_call.returned[1]) = 2

C15_AdditionalRedFlagLowers ==
    LET plain   == tool_call.urls[1]
        flagged == tool_call.urls[2]
    IN  (/\ Len(tool_call.scores) = 2
         /\ plain.host = flagged.host
         /\ plain.scheme = flagged.scheme
         /\ (plain.length > 200) = (flagged.length > 200)
         /\ Range(plain.path) \subseteq Range(flagged.path)
         /\ Cardinality(Range(flagged.path) \ Range(plain.path)) = 1)
        => tool_call.scores[2] < tool_call.scores[1]

C15_Witness ==
    /\ Len(tool_call.scores) = 2
    /\ tool_call.urls[1].host = <<"blogspot", ".", "com">>
    /\ tool_call.urls[1].scheme = "http"
    /\ tool_call.urls[1].length > 200
    /\ Len(tool_call.urls[1].path) = 5
    /\ Len(tool_call.urls[2].path) = 6
    /\ tool_call.scores[2] < tool_call.scores[1]

\* A markdown heading for the word starts at piece i of the text: at the
\* start of a line, one to six "#", a blank, the word.
HeadingAt(text, i, word) ==
    /\ (i = 1 \/ text[i - 1] = "\n")
    /\ \E n \in 1..6 :
          /\ i + n + 1 <= Len(text)
          /\ \A j \in 0..(n - 1) : text[i + j] = "#"
          /\ text[i + n] = " "
          /\ text[i + n + 1] = word

\* The text has a References or a Sources heading.
HasReferencesHeading(text) ==
    \E i \in DOMAIN text, word \in {"References", "Sources"} :
        HeadingAt(text, i, word)

\* C16: for a non-empty source list and any text of the model backend, the
\* briefing synthesize returns has a References or a Sources heading; when
\* the model's text has neither, one reference line per source follows,
\* numbered from 1 in input order; when the text has one, nothing is
\* appended.
C16_BriefingHasReferencesHeading ==
    (tool_call.returned # NoneRecord /\ tool_call.sources # << >>) =>
        LET out  == tool_call.returned
            srcs == tool_call.sources
        IN  /\ HasReferencesHeading(out.text)
            /\ ~HasReferencesHeading(tool_call.result) =>
                  /\ Len(out.appended) = Len(srcs)
                  /\ \A i \in DOMAIN srcs :
                        out.appended[i] = [i |-> i, title |-> srcs[i].title,
                                           url |-> srcs[i].url]
            /\ HasReferencesHeading(tool_call.result) =>
                  /\ out.appended = << >>
                  /\ out.text = Strip(tool_call.result)

\* C17: the extraction of a URL raises nothing: whatever its fetch ends in
\* (success, an empty page, a timeout, a non-success HTTP status, any other
\* failure) the task ends with a text and the URL has its entry in the
\* returned map, and after a timeout, a non-success status or any other
\* failure that text starts with "[Error".
C17_ExtractReturnsTextOrSentinel ==
    batch # NoneRecord =>
        /\ \A i \in DOMAIN batch.task :
              batch.task[i] = "done" =>
                  /\ batch.results[i] # None
                  /\ batch.fetched[i] \in {"timeout", "status", "failure"}
                        => StartsWithError(batch.results[i])
                  /\ batch.fetched[i] \in {"ok", "empty"}
                        => ~StartsWithError(batch.results[i])
        /\ batch.returned =>
              \A i \in DOMAIN batch.urls :
                  /\ batch.urls[i] \in DOMAIN batch.content_map
                  /\ batch.content_map[batch.urls[i]] # None

C17_Witness ==
    /\ batch # NoneRecord
    /\ batch.returned
    /\ {batch.fetched[i] : i \in DOMAIN batch.urls}
          = {"timeout", "status", "failure"}
    /\ \A i \in DOMAIN batch.urls : StartsWithError(batch.results[i])

\* summarize_batch has returned to research().
Summarized == <<"synthesizing", 80>> \in Range(ProgressTrail)

\* The content research() hands the summarizer for a source: its content,
\* or its snippet when it has none.
HandedContent(source) ==
    IF source.content \in {None, ""} THEN source.snippet ELSE source.content

\* The content is a text that does not begin with the sentinel prefix.
Summarizable(content) ==
    /\ content \notin {None, ""}
    /\ ~(Len(content) >= 6 /\ SubSeq(content, 1, 6) = "[Error")

\* C18: the sentinel text of a failed extraction is the content the
\* summarizer gets for that source; the summarizer answers it, like an
\* empty content, with the fixed marker and no model call, and the other
\* sources of the batch get the model's summary: the model is invoked
\* exactly once for every content that is non-empty and does not start
\* with the sentinel prefix.
C18_SentinelSkipsModel ==
    Summarized =>
        /\ probe.llm_summarize =
              Cardinality({i \in DOMAIN filtered_sources :
                              Summarizable(HandedContent(filtered_sources[i]))})
        /\ \A i \in DOMAIN filtered_sources :
              LET source == filtered_sources[i]
              IN  /\ summarized_sources[i].content = HandedContent(source)
                  /\ Summarizable(HandedContent(source))
                        => source.summary = SummaryText(source.title)
                  /\ ~Summarizable(HandedContent(source))
                        => source.summary = UnableToSummarize

C18_Witness ==
    /\ Summarized
    /\ pc = "done"
    /\ \E i, j, k \in DOMAIN filtered_sources :
          /\ filtered_sources[i].content = "[Error: Request timed out for url]"
          /\ filtered_sources[i].summary = UnableToSummarize
          /\ filtered_sources[j].summary = SummaryText(filtered_sources[j].title)
          /\ HandedContent(filtered_sources[k]) = ""
          /\ filtered_sources[k].summary = UnableToSummarize
    /\ probe.llm_summarize = Len(filtered_sources) - 2

\* The sub-search came back with the entry of its except clause.
SubSearchFailed(results) ==
    Len(results) = 1 /\ results[1].url = empty_url

\* The returned sources whose URL is on one of the hosts.
ReturnedFrom(hosts) ==
    {i \in DOMAIN tool_call.returned : tool_call.returned[i].url.host \in hosts}

\* C19: when one of the two academic sub-searches fails, search() still
\* returns: the failed sub-source has no Source in the returned list,
\* every result of the other sub-source is in it, and the list is never
\* longer than the result cap of the tool.
C19_FailedSubSearchDegrades ==
    tool_call.done =>
        LET ax == tool_call.arxiv_results
            sx == tool_call.semantic_results
            arxiv_hosts == {url_arxiv_paper.host}
            s2_hosts    == {url_s2_paper.host}
        IN  /\ Len(tool_call.returned) <= tool_call.max_results
            /\ \A i \in DOMAIN tool_call.returned :
                  tool_call.returned[i].url # empty_url
            /\ (SubSearchFailed(ax) /\ ~SubSearchFailed(sx)) =>
                  /\ ReturnedFrom(arxiv_hosts) = {}
                  /\ Cardinality(ReturnedFrom(s2_hosts)) = Len(sx)
            /\ (SubSearchFailed(sx) /\ ~SubSearchFailed(ax)) =>
                  /\ ReturnedFrom(s2_hosts) = {}
                  /\ Cardinality(ReturnedFrom(arxiv_hosts)) = Len(ax)

C19_Witness ==
    /\ tool_call.done
    /\ SubSearchFailed(tool_call.arxiv_results)
    /\ Len(tool_call.semantic_results) = 3
    /\ tool_call.max_results = 6
    /\ Len(tool_call.returned) = 3

\* C20: every source the academic provider returns carries the score 0.92
\* when it comes from the preprint index and 0.88 when it comes from the
\* citation-graph index, and so lies above the 0.8 that filter_sources
\* keeps an existing score from.
C20_AcademicPreScored ==
    tool_call.done =>
        \A i \in DOMAIN tool_call.returned :
            LET source == tool_call.returned[i]
            IN  /\ source.url.host = url_arxiv_paper.host
                      => source.credibility_score = 92
                /\ source.url.host = url_s2_paper.host
                      => source.credibility_score = 88
                /\ source.credibility_score > 80
                /\ SourceScore(source) = source.credibility_score

\* C21: filter_sources leaves the credibility_score of a source as it was
\* when it was above 0.8 on entry, and writes score(url) over it otherwise;
\* a source that enters with exactly 0.8, or less, is scored from its URL.
C21_HighScoreKeptElseRescored ==
    FilterReturned =>
        \A i \in DOMAIN tool_call.sources :
            LET before == tool_call.sources[i]
                after  == tool_call.objects[i]
            IN  /\ before.credibility_score > 80
                      => after.credibility_score = before.credibility_score
                /\ before.credibility_score <= 80
                      => after.credibility_score = credibility_run(before.url)
                /\ [after EXCEPT !.credibility_score = 0]
                      = [before EXCEPT !.credibility_score = 0]

C21_Witness ==
    /\ FilterReturned
    /\ \E i, j \in DOMAIN tool_call.sources :
          /\ tool_call.sources[i].credibility_score = 80
          /\ tool_call.objects[i].credibility_score # 80
          /\ tool_call.sources[j].credibility_score = 85
          /\ tool_call.objects[j].credibility_score = 85

\* b to the power n.
RECURSIVE Pow(_, _)
Pow(b, n) == IF n = 0 THEN 1 ELSE b * Pow(b, n - 1)

\* The values the domain step may leave, in hundredths: the value of a
\* non-suffix entry the host matches; with no such entry, the greater of
\* 0.5 and the value of a suffix entry the host ends with; else 0.5.
TableValues(host) ==
    LET entries == {CREDIBILITY_SCORES[i] : i \in DOMAIN CREDIBILITY_SCORES}
        dom == {e \in entries : ~e.tld /\ Contains(host, e.key)}
        tld == {e \in entries : e.tld /\ EndsWith(host, e.key)}
    IN  IF dom # {} THEN {e.score : e \in dom}
        ELSE IF tld # {} THEN {IF e.score > 50 THEN e.score ELSE 50 : e \in tld}
        ELSE {50}

\* r hundredths is the step sequence from the table value v, exactly
\* computed as a fraction num / den of hundredths, clamped and rounded to
\* the nearest hundredth (either way on a tie).
IsStepwiseScore(r, v, url) ==
    LET k    == Cardinality({i \in DOMAIN RED_FLAGS :
                               RED_FLAGS[i] \cap UrlTokens(url) # {}})
        d1   == Pow(10, k)
        n1   == v * Pow(7, k)
        n2   == IF url.scheme = "https"
                THEN (IF n1 + 3 * d1 > 100 * d1 THEN 100 * d1 ELSE n1 + 3 * d1)
                ELSE n1
        num  == IF url.length > 200 THEN n2 * 9 ELSE n2 * 10
        den  == d1 * 10
    IN  /\ r \in 0..100
        /\ 2 * (r * den - num) <= den
        /\ 2 * (num - r * den) <= den

\* C22: the score of every parseable URL is the step sequence: 0.5, or the
\* value of a matching non-suffix entry whatever the suffix entries say,
\* or else the greater of 0.5 and a matching suffix entry's value; times
\* 0.7 for every red-flag pattern found; plus 0.03 up to 1.0 for https;
\* times 0.9 above 200 characters; clamped to [0, 1] and rounded to
\* hundredths.
C22_ScoreIsStepSequence ==
    \A i \in DOMAIN tool_call.scores :
        LET url == tool_call.urls[i]
        IN  url.parses =>
              \E v \in TableValues(url.host) :
                  IsStepwiseScore(tool_call.scores[i], v, url)

\* A host that matches a non-suffix entry (0.92) and ends with a suffix
\* entry (0.85), scored with a red flag, https and the length penalty:
\* 0.92 * 0.7 = 0.644, + 0.03 = 0.674, * 0.9 = 0.6066, rounded 0.61.
C22_Witness ==
    /\ Len(tool_call.scores) = 2
    /\ tool_call.urls[1].host =
          <<"pubmed", ".", "ncbi", ".", "nlm", ".", "nih", ".", "gov">>
    /\ tool_call.urls[1].scheme = "https"
    /\ tool_call.urls[1].length > 200
    /\ Len(tool_call.urls[1].path) = 1
    /\ tool_call.scores[1] = 61

\* Every task of the extraction batch has resolved and given back its
\* permit.
ExtractionSettled ==
    /\ \A i \in DOMAIN batch.task : batch.task[i] = "done"
    /\ batch.permits = batch.max_concurrent

\* C23: extract_batch has returned only if every URL task has resolved,
\* with a text or a failure sentinel, and released its permit; a
\* summarization call exists only if extract_batch has returned; the
\* synthesis call has been made only if every summarization call has
\* completed.
C23_StagesWaitForFanOut ==
    /\ (batch # NoneRecord /\ batch.returned) => ExtractionSettled
    /\ tool_call # NoneRecord =>
          batch # NoneRecord /\ batch.returned /\ ExtractionSettled
    /\ (probe.llm_synthesize > 0 \/ briefing # NoneRecord) =>
          /\ tool_call # NoneRecord
          /\ \A i \in DOMAIN tool_call.task : tool_call.task[i] = "done"

\* The synthesis call is made behind two fetches, one of them failed, and
\* two model summaries.
C23_Witness ==
    /\ probe.llm_synthesize = 1
    /\ batch # NoneRecord
    /\ Len(batch.urls) = 2
    /\ batch.fetched[1] = "failure"
    /\ batch.fetched[2] = "ok"
    /\ tool_call # NoneRecord
    /\ Len(tool_call.order) >= 2

\* The host of the URL is on an academic domain.
AcademicDomain(url) ==
    \/ Contains(url.host, <<"arxiv", ".", "org">>)
    \/ Contains(url.host, <<"semanticscholar", ".", "org">>)

\* C24: a fetch is issued only for the URL of a processed source, and
\* never for a URL on an academic domain; once the extraction stage is
\* over, the content of a processed source whose URL is in the extraction
\* map is the text the map holds for it, and the content of every other
\* processed source is its snippet.
C24_FetchOnlyNonAcademic ==
    /\ batch # NoneRecord =>
          \A i \in DOMAIN batch.task :
              batch.task[i] # "waiting" =>
                  /\ ~AcademicDomain(batch.urls[i])
                  /\ \E k \in DOMAIN filtered_sources :
                        filtered_sources[k].url = batch.urls[i]
    /\ tool_call # NoneRecord =>
          \A k \in DOMAIN filtered_sources :
              LET source == filtered_sources[k]
              IN  IF source.url \in DOMAIN batch.content_map
                  THEN source.content = batch.content_map[source.url]
                  ELSE source.content = source.snippet

\* Behind the extraction stage, a web page has the fetched text and an
\* academic paper, not fetched, its abstract.
C24_Witness ==
    /\ tool_call # NoneRecord
    /\ Len(batch.urls) >= 1
    /\ \E j, k \in DOMAIN filtered_sources :
          /\ AcademicDomain(filtered_sources[j].url)
          /\ filtered_sources[j].url \notin DOMAIN batch.content_map
          /\ filtered_sources[j].content = "abstract"
          /\ filtered_sources[k].url \in DOMAIN batch.content_map
          /\ filtered_sources[k].content = "page text"

\* C25: summarize_batch holds one call per input source, and when every
\* call has completed the list it returned has the length and the order
\* of its input, element i being input i with a summary added; the
\* summary on the i-th source of the run is the one produced for that
\* source, in whatever order the calls completed.
C25_SummariesKeepOrder ==
    pc \in {"synthesize", "result"} =>
        /\ DOMAIN tool_call.task = DOMAIN filtered_sources
        /\ Len(summarized_sources) = Len(tool_call.sources)
        /\ \A i \in DOMAIN tool_call.sources :
              /\ DOMAIN summarized_sources[i] =
                    DOMAIN tool_call.sources[i] \cup {"summary"}
              /\ \A f \in DOMAIN tool_call.sources[i] :
                    summarized_sources[i][f] = tool_call.sources[i][f]
              /\ summarized_sources[i].summary = tool_call.summary[i]
              /\ filtered_sources[i].summary = tool_call.summary[i]
              /\ filtered_sources[i].summary \in
                    {SummaryText(filtered_sources[i].title), UnableToSummarize}

\* The call for the second source completed before the call for the first.
C25_Witness ==
    /\ pc = "synthesize"
    /\ Len(tool_call.order) >= 2
    /\ tool_call.order[1] = 2
    /\ tool_call.order[2] = 1
    /\ filtered_sources[1].summary = SummaryText(filtered_sources[1].title)
    /\ filtered_sources[2].summary = SummaryText(filtered_sources[2].title)

\* C26: a filter_sources call that is handed a min_score, 0 included,
\* returns every source of its input whose score, kept or recomputed, is
\* at least that min_score.
C26_ExplicitMinScoreKeepsAll ==
    (FilterReturned /\ tool_call.min_score # NoMinScore) =>
        \A i \in DOMAIN tool_call.objects :
            tool_call.objects[i].credibility_score >= tool_call.min_score =>
                \E k \in DOMAIN tool_call.returned :
                    tool_call.returned[k] = tool_call.objects[i]

\* extract_batch has been called with at least one permit.
BatchHasPermits == batch # NoneRecord /\ batch.max_concurrent >= 1

\* extract_batch has returned.
BatchReturned == batch # NoneRecord /\ batch.returned

\* extract_batch was called without a permit for a non-empty URL list, and
\* a task is past the semaphore or the call has returned.
StarvedBatchMoved ==
    /\ batch # NoneRecord
    /\ batch.max_concurrent = 0
    /\ batch.urls # << >>
    /\ \/ batch.returned
       \/ \E i \in DOMAIN batch.task : batch.task[i] # "waiting"

\* C27: a batch called with max_concurrent of 1 or more returns in the
\* end, every fetch coming to an end; a batch called with max_concurrent 0
\* and a non-empty URL list never has a task past the semaphore and never
\* returns.
C27_BatchTerminatesWithPermits ==
    /\ BatchHasPermits ~> BatchReturned
    /\ [](~StarvedBatchMoved)

\* A batch of more URLs than permits has returned.
C27_Witness ==
    /\ batch # NoneRecord
    /\ batch.returned
    /\ batch.max_concurrent = 1
    /\ Len(batch.urls) >= 2

\* Both passes of the filter, at 0.4 and at 0.2, kept no source.
BothPassesEmpty == probe.filter = <<40, 20>> /\ filtered_sources = << >>

\* The last n entries of a sequence.
LastOf(s, n) == SubSeq(s, Len(s) - n + 1, Len(s))

\* C28: when both filter passes keep nothing, the run fetches no page and
\* calls the model neither to summarize nor to synthesize, raises nothing,
\* still emits extracting, summarizing, synthesizing and completed, and
\* yields a result with no sources and the fixed no-sources briefing; the
\* caller writes that result to the cache, where a request for the same
\* key finds it until its TTL has elapsed or it is invalidated.
C28_EmptyFilterStillCompletesAndCaches ==
    BothPassesEmpty =>
        /\ probe.fetch = << >>
        /\ probe.llm_summarize = 0
        /\ probe.llm_synthesize = 0
        /\ probe.raised = "none"
        /\ pc \in {"finish", "done"} =>
              /\ Len(ProgressTrail) >= 4
              /\ LastOf(ProgressTrail, 4) =
                    <<<<"extracting", 30>>, <<"summarizing", 50>>,
                      <<"synthesizing", 80>>, <<"completed", 100>>>>
              /\ events[Len(events)] = ResultEvent(final_result)
              /\ final_result.sources = << >>
              /\ final_result.briefing = NoSourcesBriefing
        /\ pc = "done" =>
              LET found == cache_get(store, request.topic, request.depth,
                                     request.include_academic, clock)
                  key   == make_key(request.topic, request.depth,
                                    request.include_academic)
              IN  /\ probe.cache_set = 1
                  /\ found # NoneRecord
                  /\ ResultPlusMeta(found, final_result)
                  /\ cache_get(store, request.topic, request.depth,
                               request.include_academic,
                               clock + ttl_hours) = NoneRecord
                  /\ cache_get(ttl_delete(store, key), request.topic,
                               request.depth, request.include_academic,
                               clock) = NoneRecord

\* A run that both passes emptied has ended and written its result.
C28_Witness ==
    /\ BothPassesEmpty
    /\ pc = "done"
    /\ Len(sources) >= 1
    /\ store # EarlierStore

\* stream_research found a live entry for its key.
CacheHit == cached_result # NoneRecord

\* C29: on a live cache entry for the key the consumer gets one progress
\* event, completed at 1.0, and then one result event that is the stored
\* result without cached_at and cache_key; neither search is made, nothing
\* is filtered or fetched, the model is not called, and the cache is not
\* written.
C29_HitServedFromCache ==
    CacheHit =>
        LET stored == store[make_key(request.topic, request.depth,
                                     request.include_academic)].value
            n      == Len(stored.sources)
            first  == Progress("completed", 100, n, n)
        IN  /\ probe = NoCalls
            /\ store = EarlierStore
            /\ cached_result = stored
            /\ pc = "hit_result" => events = <<first>>
            /\ pc \in {"hit_end", "done"} =>
                  /\ Len(events) = 2
                  /\ events[1] = first
                  /\ IsResult(events[2])
                  /\ DOMAIN events[2].data =
                        DOMAIN stored \ {"cached_at", "cache_key"}
                  /\ \A f \in DOMAIN events[2].data :
                        events[2].data[f] = stored[f]
                  /\ events[2].data = EarlierResult

\* A request written in other letters than the stored one was served from
\* the cache to its end.
C29_Witness ==
    /\ CacheHit
    /\ pc = "done"
    /\ Len(events) = 2
    /\ request.topic # EarlierResult.topic

\* C30: the cache is written only by the pull that follows the delivery of
\* the result event: until that pull the store is as the run found it, so
\* a consumer that stops at or before the result event leaves nothing
\* written, and the step that writes finds the result event delivered and
\* writes that result under the run's key.
C30_CacheWriteAfterDelivery ==
    /\ [](pc # "done" => (store = EarlierStore /\ probe.cache_set = 0))
    /\ [][store' # store =>
            /\ pc = "finish"
            /\ events[Len(events)] = ResultEvent(final_result)
            /\ events' = events
            /\ store' = cache_set(store, request.topic, request.depth,
                                  final_result, request.include_academic,
                                  clock)]_vars

\* The result of a run with sources was handed on and then written.
C30_Witness ==
    /\ pc = "done"
    /\ probe.cache_set = 1
    /\ store # EarlierStore
    /\ events[Len(events)] = ResultEvent(final_result)
    /\ final_result.sources # << >>
====
